---- MODULE Spec2Model ----
(***************************************************************************)
(* The dupl-server-proto message model with its two codecs: the binary    *)
(* codec of src/src/bin.rs (ToBin / FromBin) and the structured-text      *)
(* codec of src/src/json.rs (ToJson / FromJson).                          *)
(*                                                                         *)
(* Representation.                                                         *)
(*   byte        an integer 0..255                                         *)
(*   [u8] slice  a sequence of bytes                                       *)
(*   String      the sequence of its UTF-8 bytes                           *)
(*   u64, f64    the 8 base-256 digits of the 64-bit pattern, most         *)
(*               significant digit first (177 is <<0,0,0,0,0,0,0,177>>,    *)
(*               0.5 is 0x3FE0000000000000)                                *)
(*   u32/usize   a natural number                                          *)
(*   enum value  a record with a tag field naming the variant              *)
(*   env         [host, ud]: the byte order NativeEndian resolves to on    *)
(*               the machine running the code, and the type chosen for UD  *)
(***************************************************************************)
EXTENDS Integers, Sequences, FiniteSets, TLC

\* Longest sequence carried by a Workload::Many in the model.
MaxMany == 2

Hosts == {"LE", "BE"}
UDTypes == {"String", "f64"}
Envs == [host : Hosts, ud : UDTypes]

Reverse(s) == [i \in 1..Len(s) |-> s[Len(s) + 1 - i]]

Min(a, b) == IF a < b THEN a ELSE b

Zeros(n) == [i \in 1..n |-> 0]

RECURSIVE SeqsUpTo(_, _)
SeqsUpTo(S, n) ==
    IF n = 0 THEN {<<>>}
    ELSE LET shorter == SeqsUpTo(S, n - 1)
         IN  shorter \cup {Append(s, x) : s \in {t \in shorter : Len(t) = n - 1}, x \in S}

(***************************************************************************)
(* Fixed-width numbers.                                                    *)
(***************************************************************************)

\* `n as u32`: the four base-256 digits of n modulo 2^32, most significant first.
U32Digits(n) ==
    << (n \div 16777216) % 256, (n \div 65536) % 256, (n \div 256) % 256, n % 256 >>

\* The number four digits stand for.  TLC's integers end at 2^31 - 1, so a
\* pattern at or above 2^31 reads as that largest integer: every model slice is far
\* shorter, and the decoder only compares the number with a slice length or counts
\* up to it.
U32Value(d) ==
    IF d[1] >= 128 THEN 2147483647
    ELSE d[1] * 16777216 + d[2] * 65536 + d[3] * 256 + d[4]

\* NativeEndian::write_*: the digits in the order the host stores them.
NativeWrite(e, digits) == IF e.host = "BE" THEN digits ELSE Reverse(digits)

\* NativeEndian::read_*: the digits of the number the host reads from bytes.
NativeRead(e, bytes) == IF e.host = "BE" THEN bytes ELSE Reverse(bytes)

(***************************************************************************)
(* Results of decode: Ok((value, rest)) or Err(error).                     *)
(***************************************************************************)
Ok(v, rest) == [ok |-> TRUE, val |-> v, rest |-> rest]
ErrUnexpectedEOF == [ok |-> FALSE, err |-> "UnexpectedEOF", tag |-> 0]
ErrInvalidTag(t) == [ok |-> FALSE, err |-> "InvalidTag", tag |-> t]
ErrUtf8 == [ok |-> FALSE, err |-> "Utf8", tag |-> 0]

\* try!: the continuation on Ok, the error returned unchanged otherwise.
AndThen(r, K(_)) == IF r.ok THEN K(r) ELSE r

\* try_get! with the remaining slice starting one byte early (a faulty variant).
try_get_RestOffByOne(e, data, size) ==
    IF Len(data) < size THEN ErrUnexpectedEOF
    ELSE Ok(NativeRead(e, SubSeq(data, 1, size)), SubSeq(data, size, Len(data)))

\* try_get!: size bytes from the front of data, or UnexpectedEOF.  The value is
\* the sequence of digits read.
try_get(e, data, size) ==
    IF Len(data) < size THEN ErrUnexpectedEOF
    ELSE Ok(NativeRead(e, SubSeq(data, 1, size)), SubSeq(data, size + 1, Len(data)))

\* try_get! of a u8 handing back the slice it was given, the byte still in
\* front (a faulty variant).
try_get_u8_NotAdvanced(data) ==
    IF Len(data) < 1 THEN ErrUnexpectedEOF
    ELSE Ok(data[1], data)

\* try_get!(area, u8, read_u8): one byte, whatever the host.
try_get_u8(data) ==
    IF Len(data) < 1 THEN ErrUnexpectedEOF
    ELSE Ok(data[1], SubSeq(data, 2, Len(data)))

(***************************************************************************)
(* The area encode writes into: the caller's buffer, the offset at which   *)
(* the remaining slice starts, and whether the call is still running (a    *)
(* write that does not fit panics; ok is FALSE from then on).              *)
(***************************************************************************)
NewArea(buf) == [buf |-> buf, pos |-> 0, ok |-> TRUE]

\* put_adv! writing as many of the bytes as fit and returning normally (a faulty
\* variant).
put_adv_Clamped(area, bytes) ==
    [area EXCEPT
        !.buf = [i \in 1..Len(area.buf) |->
                    IF i > area.pos /\ i <= area.pos + Len(bytes)
                    THEN bytes[i - area.pos] ELSE area.buf[i]],
        !.pos = Min(area.pos + Len(bytes), Len(area.buf))]

\* put_adv!: write the bytes at the front of the area, return the rest of it.
put_adv(area, bytes) ==
    IF ~area.ok THEN area
    ELSE IF Len(area.buf) - area.pos < Len(bytes) THEN [area EXCEPT !.ok = FALSE]
    ELSE [area EXCEPT
            !.buf = [i \in 1..Len(area.buf) |->
                        IF i > area.pos /\ i <= area.pos + Len(bytes)
                        THEN bytes[i - area.pos] ELSE area.buf[i]],
            !.pos = area.pos + Len(bytes)]

(***************************************************************************)
(* str::from_utf8: whether the bytes are well-formed UTF-8.                *)
(***************************************************************************)
IsCont(b) == b >= 128 /\ b <= 191

RECURSIVE Utf8Valid(_)
Utf8Valid(s) ==
    IF Len(s) = 0 THEN TRUE
    ELSE LET b == s[1]
             n == Len(s)
         IN  IF b < 128 THEN Utf8Valid(SubSeq(s, 2, n))
             ELSE IF b >= 194 /\ b <= 223
                  THEN n >= 2 /\ IsCont(s[2]) /\ Utf8Valid(SubSeq(s, 3, n))
             ELSE IF b >= 224 /\ b <= 239
                  THEN /\ n >= 3
                       /\ IsCont(s[2])
                       /\ b = 224 => s[2] >= 160
                       /\ b = 237 => s[2] <= 159
                       /\ IsCont(s[3])
                       /\ Utf8Valid(SubSeq(s, 4, n))
             ELSE IF b >= 240 /\ b <= 244
                  THEN /\ n >= 4
                       /\ IsCont(s[2])
                       /\ b = 240 => s[2] >= 144
                       /\ b = 244 => s[2] <= 143
                       /\ IsCont(s[3])
                       /\ IsCont(s[4])
                       /\ Utf8Valid(SubSeq(s, 5, n))
             ELSE FALSE

\* try_get_str! checking UTF-8 on whatever bytes are there before it checks
\* that the declared bytes are all present (a faulty variant).
try_get_str_Utf8BeforeLength(e, buf) ==
    AndThen(try_get(e, buf, 4), LAMBDA l :
        IF ~Utf8Valid(SubSeq(l.rest, 1, Min(U32Value(l.val), Len(l.rest)))) THEN ErrUtf8
        ELSE IF Len(l.rest) < U32Value(l.val) THEN ErrUnexpectedEOF
        ELSE Ok(SubSeq(l.rest, 1, U32Value(l.val)),
                SubSeq(l.rest, U32Value(l.val) + 1, Len(l.rest))))

\* try_get_str! taking the bytes as they are, as from_utf8_unchecked would (a
\* faulty variant).
try_get_str_Unchecked(e, buf) ==
    AndThen(try_get(e, buf, 4), LAMBDA l :
        IF Len(l.rest) < U32Value(l.val) THEN ErrUnexpectedEOF
        ELSE Ok(SubSeq(l.rest, 1, U32Value(l.val)),
                SubSeq(l.rest, U32Value(l.val) + 1, Len(l.rest))))

\* try_get_str!: the u32 length, then that many bytes, checked as UTF-8.
try_get_str(e, buf) ==
    AndThen(try_get(e, buf, 4), LAMBDA l :
        IF Len(l.rest) < U32Value(l.val) THEN ErrUnexpectedEOF
        ELSE IF ~Utf8Valid(SubSeq(l.rest, 1, U32Value(l.val))) THEN ErrUtf8
        ELSE Ok(SubSeq(l.rest, 1, U32Value(l.val)),
                SubSeq(l.rest, U32Value(l.val) + 1, Len(l.rest))))

\* put_str_adv! returning the area as it was after the length, the copied bytes
\* not stepped over (a faulty variant).
put_str_adv_PayloadNotSkipped(e, area, str) ==
    [put_adv(put_adv(area, NativeWrite(e, U32Digits(Len(str)))), str) EXCEPT
        !.pos = put_adv(area, NativeWrite(e, U32Digits(Len(str)))).pos]

\* put_str_adv!: the length as u32, then the bytes (copy_memory panics when the
\* destination is shorter than the source).
put_str_adv(e, area, str) ==
    put_adv(put_adv(area, NativeWrite(e, U32Digits(Len(str)))), str)

(***************************************************************************)
(* impl_bin!: the fixed-width numbers the model uses (u64, f64).           *)
(***************************************************************************)
U64EncodeLen(v) == 8
U64Encode(e, v, area) == put_adv(area, NativeWrite(e, v))
U64Decode(e, area) == try_get(e, area, 8)

F64EncodeLen(v) == 8
F64Encode(e, v, area) == put_adv(area, NativeWrite(e, v))
F64Decode(e, area) == try_get(e, area, 8)

(***************************************************************************)
(* ToBin / FromBin for String.                                             *)
(***************************************************************************)
\* encode_len of a String without its length prefix (a faulty variant).
StringEncodeLen_NoPrefix(v) == Len(v)

StringEncodeLen(v) == 4 + Len(v)
StringEncode(e, v, area) == put_str_adv(e, area, v)
StringDecode(e, area) == try_get_str(e, area)

(***************************************************************************)
(* The user-data type UD: whichever type the caller instantiates.          *)
(***************************************************************************)
UDEncodeLen(e, v) == IF e.ud = "String" THEN StringEncodeLen(v) ELSE F64EncodeLen(v)
UDEncode(e, v, area) ==
    IF e.ud = "String" THEN StringEncode(e, v, area) ELSE F64Encode(e, v, area)
UDDecode(e, area) == IF e.ud = "String" THEN StringDecode(e, area) ELSE F64Decode(e, area)

(***************************************************************************)
(* LookupType.                                                             *)
(***************************************************************************)
LookupTypeEncodeLen(v) == 1

LookupTypeEncode(v, area) ==
    CASE v = "All" -> put_adv(area, <<1>>)
      [] v = "Best" -> put_adv(area, <<2>>)
      [] v = "BestOrMine" -> put_adv(area, <<3>>)

\* decode of LookupType with a catch-all arm in place of InvalidTag (a faulty
\* variant).
LookupTypeDecode_CatchAll(area) ==
    AndThen(try_get_u8(area), LAMBDA t :
        CASE t.val = 1 -> Ok("All", t.rest)
          [] t.val = 2 -> Ok("Best", t.rest)
          [] OTHER -> Ok("BestOrMine", t.rest))

LookupTypeDecode(area) ==
    AndThen(try_get_u8(area), LAMBDA t :
        CASE t.val = 1 -> Ok("All", t.rest)
          [] t.val = 2 -> Ok("Best", t.rest)
          [] t.val = 3 -> Ok("BestOrMine", t.rest)
          [] OTHER -> ErrInvalidTag(t.val))

(***************************************************************************)
(* InsertCond.                                                             *)
(***************************************************************************)
InsertCondEncodeLen(v) == 1 + (IF v.tag = "Always" THEN 0 ELSE 8)

InsertCondEncode(e, v, area) ==
    IF v.tag = "Always" THEN put_adv(area, <<1>>)
    ELSE put_adv(put_adv(area, <<2>>), NativeWrite(e, v.sim))

\* decode of InsertCond taking the tag 0 for Always as well (a faulty variant).
InsertCondDecode_ZeroIsAlways(e, area) ==
    AndThen(try_get_u8(area), LAMBDA t :
        CASE t.val \in {0, 1} -> Ok([tag |-> "Always"], t.rest)
          [] t.val = 2 ->
                AndThen(try_get(e, t.rest, 8), LAMBDA sim :
                    Ok([tag |-> "BestSimLessThan", sim |-> sim.val], sim.rest))
          [] OTHER -> ErrInvalidTag(t.val))

InsertCondDecode(e, area) ==
    AndThen(try_get_u8(area), LAMBDA t :
        CASE t.val = 1 -> Ok([tag |-> "Always"], t.rest)
          [] t.val = 2 ->
                AndThen(try_get(e, t.rest, 8), LAMBDA sim :
                    Ok([tag |-> "BestSimLessThan", sim |-> sim.val], sim.rest))
          [] OTHER -> ErrInvalidTag(t.val))

(***************************************************************************)
(* AssignCond.                                                             *)
(***************************************************************************)
AssignCondEncodeLen(v) == 1 + (IF v.tag = "Always" THEN 0 ELSE 8)

AssignCondEncode(e, v, area) ==
    IF v.tag = "Always" THEN put_adv(area, <<1>>)
    ELSE put_adv(put_adv(area, <<2>>), NativeWrite(e, v.sim))

AssignCondDecode(e, area) ==
    AndThen(try_get_u8(area), LAMBDA t :
        CASE t.val = 1 -> Ok([tag |-> "Always"], t.rest)
          [] t.val = 2 ->
                AndThen(try_get(e, t.rest, 8), LAMBDA sim :
                    Ok([tag |-> "BestSimLessThan", sim |-> sim.val], sim.rest))
          [] OTHER -> ErrInvalidTag(t.val))

(***************************************************************************)
(* ClusterChoice.                                                          *)
(***************************************************************************)
ClusterChoiceEncodeLen(v) == 1 + (IF v.tag = "ServerChoice" THEN 0 ELSE 8)

ClusterChoiceEncode(e, v, area) ==
    IF v.tag = "ServerChoice" THEN put_adv(area, <<1>>)
    ELSE put_adv(put_adv(area, <<2>>), NativeWrite(e, v.cluster_id))

ClusterChoiceDecode(e, area) ==
    AndThen(try_get_u8(area), LAMBDA t :
        CASE t.val = 1 -> Ok([tag |-> "ServerChoice"], t.rest)
          [] t.val = 2 ->
                AndThen(try_get(e, t.rest, 8), LAMBDA id :
                    Ok([tag |-> "ClientChoice", cluster_id |-> id.val], id.rest))
          [] OTHER -> ErrInvalidTag(t.val))

(***************************************************************************)
(* ClusterAssign { cond, choice }.                                         *)
(***************************************************************************)
ClusterAssignEncodeLen(v) == AssignCondEncodeLen(v.cond) + ClusterChoiceEncodeLen(v.choice)

\* encode of ClusterAssign with its two fields in the other order (a faulty
\* variant).
ClusterAssignEncode_ChoiceFirst(e, v, area) ==
    AssignCondEncode(e, v.cond, ClusterChoiceEncode(e, v.choice, area))

ClusterAssignEncode(e, v, area) ==
    ClusterChoiceEncode(e, v.choice, AssignCondEncode(e, v.cond, area))

ClusterAssignDecode(e, area) ==
    AndThen(AssignCondDecode(e, area), LAMBDA cond :
    AndThen(ClusterChoiceDecode(e, cond.rest), LAMBDA choice :
        Ok([cond |-> cond.val, choice |-> choice.val], choice.rest)))

(***************************************************************************)
(* PostAction<UD>.                                                         *)
(***************************************************************************)
PostActionEncodeLen(e, v) ==
    1 + (IF v.tag = "None" THEN 0
         ELSE InsertCondEncodeLen(v.cond) + ClusterAssignEncodeLen(v.assign)
                + UDEncodeLen(e, v.user_data))

PostActionEncode(e, v, area) ==
    IF v.tag = "None" THEN put_adv(area, <<1>>)
    ELSE UDEncode(e, v.user_data,
            ClusterAssignEncode(e, v.assign,
                InsertCondEncode(e, v.cond, put_adv(area, <<2>>))))

PostActionDecode(e, area) ==
    AndThen(try_get_u8(area), LAMBDA t :
        CASE t.val = 1 -> Ok([tag |-> "None"], t.rest)
          [] t.val = 2 ->
                AndThen(InsertCondDecode(e, t.rest), LAMBDA cond :
                AndThen(ClusterAssignDecode(e, cond.rest), LAMBDA assign :
                AndThen(UDDecode(e, assign.rest), LAMBDA user_data :
                    Ok([tag |-> "InsertNew",
                        cond |-> cond.val,
                        assign |-> assign.val,
                        user_data |-> user_data.val],
                       user_data.rest))))
          [] OTHER -> ErrInvalidTag(t.val))

(***************************************************************************)
(* LookupTask<UD> { text, result, post_action }.                           *)
(***************************************************************************)
LookupTaskEncodeLen(e, v) ==
    StringEncodeLen(v.text) + LookupTypeEncodeLen(v.result)
        + PostActionEncodeLen(e, v.post_action)

LookupTaskEncode(e, v, area) ==
    PostActionEncode(e, v.post_action,
        LookupTypeEncode(v.result, StringEncode(e, v.text, area)))

\* decode of LookupTask going on to the post action after a bad result tag and
\* returning the later error when there is one (a faulty variant).
LookupTaskDecode_LastError(e, area) ==
    AndThen(StringDecode(e, area), LAMBDA text :
        IF LookupTypeDecode(text.rest).ok
        THEN AndThen(LookupTypeDecode(text.rest), LAMBDA result :
             AndThen(PostActionDecode(e, result.rest), LAMBDA post_action :
                 Ok([text |-> text.val,
                     result |-> result.val,
                     post_action |-> post_action.val],
                    post_action.rest)))
        ELSE IF text.rest # <<>> /\ ~PostActionDecode(e, Tail(text.rest)).ok
             THEN PostActionDecode(e, Tail(text.rest))
             ELSE LookupTypeDecode(text.rest))

LookupTaskDecode(e, area) ==
    AndThen(StringDecode(e, area), LAMBDA text :
    AndThen(LookupTypeDecode(text.rest), LAMBDA result :
    AndThen(PostActionDecode(e, result.rest), LAMBDA post_action :
        Ok([text |-> text.val,
            result |-> result.val,
            post_action |-> post_action.val],
           post_action.rest))))

(***************************************************************************)
(* T::encode_len, T::encode and T::decode for the type named ty: the       *)
(* dispatch is defined once every implementation is, below.                *)
(***************************************************************************)
RECURSIVE EncodeLen(_, _, _)
RECURSIVE Encode(_, _, _, _)
RECURSIVE Decode(_, _, _)

(***************************************************************************)
(* Workload<T>, for the element type named T.                              *)
(***************************************************************************)
\* values.iter().fold(0, |total, value| total + value.encode_len())
RECURSIVE FoldEncodeLen(_, _, _, _)
FoldEncodeLen(T, e, values, total) ==
    IF Len(values) = 0 THEN total
    ELSE FoldEncodeLen(T, e, Tail(values), total + EncodeLen(T, e, Head(values)))

\* values.iter().fold(area, |area, value| value.encode(area))
RECURSIVE FoldEncode(_, _, _, _)
FoldEncode(T, e, values, area) ==
    IF Len(values) = 0 THEN area
    ELSE FoldEncode(T, e, Tail(values), Encode(T, e, Head(values), area))

\* the decode loop putting each element in front of those before it (a faulty
\* variant)
RECURSIVE DecodeLoop_Prepend(_, _, _, _, _)
DecodeLoop_Prepend(T, e, len, values, area) ==
    IF len = 0 THEN Ok([tag |-> "Many", values |-> values], area)
    ELSE AndThen(Decode(T, e, area), LAMBDA value :
            DecodeLoop_Prepend(T, e, len - 1, <<value.val>> \o values, value.rest))

\* for _ in 0 .. len { values.push(try!(T::decode(area))) }
RECURSIVE DecodeLoop(_, _, _, _, _)
DecodeLoop(T, e, len, values, area) ==
    IF len = 0 THEN Ok([tag |-> "Many", values |-> values], area)
    ELSE AndThen(Decode(T, e, area), LAMBDA value :
            DecodeLoop(T, e, len - 1, Append(values, value.val), value.rest))

WorkloadEncodeLen(T, e, v) ==
    1 + (IF v.tag = "Single" THEN EncodeLen(T, e, v.value)
         ELSE 4 + FoldEncodeLen(T, e, v.values, 0))

WorkloadEncode(T, e, v, area) ==
    IF v.tag = "Single" THEN Encode(T, e, v.value, put_adv(area, <<1>>))
    ELSE FoldEncode(T, e, v.values,
            put_adv(put_adv(area, <<2>>), NativeWrite(e, U32Digits(Len(v.values)))))

WorkloadDecode(T, e, area) ==
    AndThen(try_get_u8(area), LAMBDA t :
        CASE t.val = 1 ->
                AndThen(Decode(T, e, t.rest), LAMBDA value :
                    Ok([tag |-> "Single", value |-> value.val], value.rest))
          [] t.val = 2 ->
                AndThen(try_get(e, t.rest, 4), LAMBDA len :
                    DecodeLoop(T, e, U32Value(len.val), <<>>, len.rest))
          [] OTHER -> ErrInvalidTag(t.val))

(***************************************************************************)
(* Req<UD>.                                                                *)
(***************************************************************************)
ReqEncodeLen(e, v) ==
    1 + (IF v.tag = "Lookup"
         THEN WorkloadEncodeLen("LookupTask", e, v.workload)
         ELSE 0)

ReqEncode(e, v, area) ==
    CASE v.tag = "Init" -> put_adv(area, <<1>>)
      [] v.tag = "Lookup" ->
            WorkloadEncode("LookupTask", e, v.workload,
                           put_adv(area, <<2>>))
      [] v.tag = "Terminate" -> put_adv(area, <<3>>)

ReqDecode(e, area) ==
    AndThen(try_get_u8(area), LAMBDA t :
        CASE t.val = 1 -> Ok([tag |-> "Init"], t.rest)
          [] t.val = 2 ->
                AndThen(WorkloadDecode("LookupTask", e, t.rest),
                        LAMBDA workload :
                    Ok([tag |-> "Lookup", workload |-> workload.val], workload.rest))
          [] t.val = 3 -> Ok([tag |-> "Terminate"], t.rest)
          [] OTHER -> ErrInvalidTag(t.val))

(***************************************************************************)
(* Trans<UD>.                                                              *)
(***************************************************************************)
TransEncodeLen(e, v) == 1 + ReqEncodeLen(e, v.req)

TransEncode(e, v, area) ==
    IF v.tag = "Async" THEN ReqEncode(e, v.req, put_adv(area, <<1>>))
    ELSE ReqEncode(e, v.req, put_adv(area, <<2>>))

TransDecode(e, area) ==
    AndThen(try_get_u8(area), LAMBDA t :
        CASE t.val = 1 ->
                AndThen(ReqDecode(e, t.rest), LAMBDA req :
                    Ok([tag |-> "Async", req |-> req.val], req.rest))
          [] t.val = 2 ->
                AndThen(ReqDecode(e, t.rest), LAMBDA req :
                    Ok([tag |-> "Sync", req |-> req.val], req.rest))
          [] OTHER -> ErrInvalidTag(t.val))

(***************************************************************************)
(* Match<UD> { cluster_id, similarity, user_data }.                        *)
(***************************************************************************)
\* encode_len of Match counting one of its two numbers only (a faulty variant).
MatchEncodeLen_OneNumber(e, v) == 8 + UDEncodeLen(e, v.user_data)

MatchEncodeLen(e, v) == 8 + 8 + UDEncodeLen(e, v.user_data)

\* encode of Match with similarity ahead of cluster_id (a faulty variant).
MatchEncode_SimilarityFirst(e, v, area) ==
    UDEncode(e, v.user_data,
        put_adv(put_adv(area, NativeWrite(e, v.similarity)), NativeWrite(e, v.cluster_id)))

MatchEncode(e, v, area) ==
    UDEncode(e, v.user_data,
        put_adv(put_adv(area, NativeWrite(e, v.cluster_id)), NativeWrite(e, v.similarity)))

MatchDecode(e, area) ==
    AndThen(try_get(e, area, 8), LAMBDA cluster_id :
    AndThen(try_get(e, cluster_id.rest, 8), LAMBDA similarity :
    AndThen(UDDecode(e, similarity.rest), LAMBDA user_data :
        Ok([cluster_id |-> cluster_id.val,
            similarity |-> similarity.val,
            user_data |-> user_data.val],
           user_data.rest))))

(***************************************************************************)
(* LookupResult<UD>.                                                       *)
(***************************************************************************)
LookupResultEncodeLen(e, v) ==
    1 + CASE v.tag = "EmptySet" -> 0
          [] v.tag = "Best" -> MatchEncodeLen(e, v.m)
          [] v.tag = "Neighbours" ->
                WorkloadEncodeLen("Match", e, v.workload)
          [] v.tag = "Error" -> StringEncodeLen(v.message)

LookupResultEncode(e, v, area) ==
    CASE v.tag = "EmptySet" -> put_adv(area, <<1>>)
      [] v.tag = "Best" -> MatchEncode(e, v.m, put_adv(area, <<2>>))
      [] v.tag = "Neighbours" ->
            WorkloadEncode("Match", e, v.workload,
                           put_adv(area, <<3>>))
      [] v.tag = "Error" -> StringEncode(e, v.message, put_adv(area, <<4>>))

LookupResultDecode(e, area) ==
    AndThen(try_get_u8(area), LAMBDA t :
        CASE t.val = 1 -> Ok([tag |-> "EmptySet"], t.rest)
          [] t.val = 2 ->
                AndThen(MatchDecode(e, t.rest), LAMBDA m :
                    Ok([tag |-> "Best", m |-> m.val], m.rest))
          [] t.val = 3 ->
                AndThen(WorkloadDecode("Match", e, t.rest),
                        LAMBDA workload :
                    Ok([tag |-> "Neighbours", workload |-> workload.val], workload.rest))
          [] t.val = 4 ->
                AndThen(StringDecode(e, t.rest), LAMBDA message :
                    Ok([tag |-> "Error", message |-> message.val], message.rest))
          [] OTHER -> ErrInvalidTag(t.val))

(***************************************************************************)
(* Rep<UD>.                                                                *)
(***************************************************************************)
RepEncodeLen(e, v) ==
    1 + CASE v.tag = "Result" ->
                WorkloadEncodeLen("LookupResult", e, v.workload)
          [] v.tag = "Unexpected" -> ReqEncodeLen(e, v.req)
          [] OTHER -> 0

RepEncode(e, v, area) ==
    CASE v.tag = "InitAck" -> put_adv(area, <<1>>)
      [] v.tag = "Result" ->
            WorkloadEncode("LookupResult", e, v.workload,
                           put_adv(area, <<2>>))
      [] v.tag = "TerminateAck" -> put_adv(area, <<3>>)
      [] v.tag = "Unexpected" -> ReqEncode(e, v.req, put_adv(area, <<4>>))
      [] v.tag = "TooBusy" -> put_adv(area, <<5>>)
      [] v.tag = "WantCrash" -> put_adv(area, <<6>>)

RepDecode(e, area) ==
    AndThen(try_get_u8(area), LAMBDA t :
        CASE t.val = 1 -> Ok([tag |-> "InitAck"], t.rest)
          [] t.val = 2 ->
                AndThen(WorkloadDecode("LookupResult", e, t.rest),
                        LAMBDA workload :
                    Ok([tag |-> "Result", workload |-> workload.val], workload.rest))
          [] t.val = 3 -> Ok([tag |-> "TerminateAck"], t.rest)
          [] t.val = 4 ->
                AndThen(ReqDecode(e, t.rest), LAMBDA req :
                    Ok([tag |-> "Unexpected", req |-> req.val], req.rest))
          [] t.val = 5 -> Ok([tag |-> "TooBusy"], t.rest)
          [] t.val = 6 -> Ok([tag |-> "WantCrash"], t.rest)
          [] OTHER -> ErrInvalidTag(t.val))

(***************************************************************************)
(* <T as ToBin> / <T as FromBin>: the codec of the type named ty.          *)
(***************************************************************************)
Types ==
    {"Trans", "Req", "WorkloadTask", "LookupTask", "LookupType", "PostAction",
     "InsertCond", "ClusterAssign", "AssignCond", "ClusterChoice",
     "Rep", "WorkloadResult", "LookupResult", "WorkloadMatch", "Match",
     "String", "u64", "f64"}

EncodeLen(ty, e, v) ==
    CASE ty = "Trans" -> TransEncodeLen(e, v)
      [] ty = "Req" -> ReqEncodeLen(e, v)
      [] ty = "WorkloadTask" -> WorkloadEncodeLen("LookupTask", e, v)
      [] ty = "LookupTask" -> LookupTaskEncodeLen(e, v)
      [] ty = "LookupType" -> LookupTypeEncodeLen(v)
      [] ty = "PostAction" -> PostActionEncodeLen(e, v)
      [] ty = "InsertCond" -> InsertCondEncodeLen(v)
      [] ty = "ClusterAssign" -> ClusterAssignEncodeLen(v)
      [] ty = "AssignCond" -> AssignCondEncodeLen(v)
      [] ty = "ClusterChoice" -> ClusterChoiceEncodeLen(v)
      [] ty = "Rep" -> RepEncodeLen(e, v)
      [] ty = "WorkloadResult" -> WorkloadEncodeLen("LookupResult", e, v)
      [] ty = "LookupResult" -> LookupResultEncodeLen(e, v)
      [] ty = "WorkloadMatch" -> WorkloadEncodeLen("Match", e, v)
      [] ty = "Match" -> MatchEncodeLen(e, v)
      [] ty = "String" -> StringEncodeLen(v)
      [] ty = "u64" -> U64EncodeLen(v)
      [] ty = "f64" -> F64EncodeLen(v)

Encode(ty, e, v, area) ==
    CASE ty = "Trans" -> TransEncode(e, v, area)
      [] ty = "Req" -> ReqEncode(e, v, area)
      [] ty = "WorkloadTask" ->
            WorkloadEncode("LookupTask", e, v, area)
      [] ty = "LookupTask" -> LookupTaskEncode(e, v, area)
      [] ty = "LookupType" -> LookupTypeEncode(v, area)
      [] ty = "PostAction" -> PostActionEncode(e, v, area)
      [] ty = "InsertCond" -> InsertCondEncode(e, v, area)
      [] ty = "ClusterAssign" -> ClusterAssignEncode(e, v, area)
      [] ty = "AssignCond" -> AssignCondEncode(e, v, area)
      [] ty = "ClusterChoice" -> ClusterChoiceEncode(e, v, area)
      [] ty = "Rep" -> RepEncode(e, v, area)
      [] ty = "WorkloadResult" ->
            WorkloadEncode("LookupResult", e, v, area)
      [] ty = "LookupResult" -> LookupResultEncode(e, v, area)
      [] ty = "WorkloadMatch" ->
            WorkloadEncode("Match", e, v, area)
      [] ty = "Match" -> MatchEncode(e, v, area)
      [] ty = "String" -> StringEncode(e, v, area)
      [] ty = "u64" -> U64Encode(e, v, area)
      [] ty = "f64" -> F64Encode(e, v, area)

Decode(ty, e, area) ==
    CASE ty = "Trans" -> TransDecode(e, area)
      [] ty = "Req" -> ReqDecode(e, area)
      [] ty = "WorkloadTask" -> WorkloadDecode("LookupTask", e, area)
      [] ty = "LookupTask" -> LookupTaskDecode(e, area)
      [] ty = "LookupType" -> LookupTypeDecode(area)
      [] ty = "PostAction" -> PostActionDecode(e, area)
      [] ty = "InsertCond" -> InsertCondDecode(e, area)
      [] ty = "ClusterAssign" -> ClusterAssignDecode(e, area)
      [] ty = "AssignCond" -> AssignCondDecode(e, area)
      [] ty = "ClusterChoice" -> ClusterChoiceDecode(e, area)
      [] ty = "Rep" -> RepDecode(e, area)
      [] ty = "WorkloadResult" -> WorkloadDecode("LookupResult", e, area)
      [] ty = "LookupResult" -> LookupResultDecode(e, area)
      [] ty = "WorkloadMatch" -> WorkloadDecode("Match", e, area)
      [] ty = "Match" -> MatchDecode(e, area)
      [] ty = "String" -> StringDecode(e, area)
      [] ty = "u64" -> U64Decode(e, area)
      [] ty = "f64" -> F64Decode(e, area)

(***************************************************************************)
(* The values the model constructs.  Every variant of every type occurs;   *)
(* the product of all fields is taken for the small types, and the larger  *)
(* types are built over samples of their parts.                            *)
(***************************************************************************)
U64_177 == <<0, 0, 0, 0, 0, 0, 0, 177>>
U64_Wide == <<1, 2, 3, 4, 5, 6, 7, 8>>
F64_Half == <<63, 224, 0, 0, 0, 0, 0, 0>>
F64_Tenth == <<63, 185, 153, 153, 153, 153, 153, 154>>
F64_Inf == <<127, 240, 0, 0, 0, 0, 0, 0>>

U64s == {U64_177, U64_Wide}
Thresholds == {F64_Half, F64_Inf}
Similarities == {F64_Half, F64_Tenth}
F64s == {F64_Half, F64_Tenth, F64_Inf}

\* "", "hi", and "e-acute" (one character, two bytes)
Strs == {<<>>, <<104, 105>>, <<195, 169>>}

\* two values of the user-data type: "d" and "e-acute !", or 0.1 and 0.5
UD_A(e) == IF e.ud = "String" THEN <<100>> ELSE F64_Tenth
UD_B(e) == IF e.ud = "String" THEN <<195, 169, 33>> ELSE F64_Half
UDValues(e) == {UD_A(e), UD_B(e)}

LookupTypes == {"All", "Best", "BestOrMine"}
InsertConds == {[tag |-> "Always"]} \cup {[tag |-> "BestSimLessThan", sim |-> f] : f \in Thresholds}
AssignConds == {[tag |-> "Always"]} \cup {[tag |-> "BestSimLessThan", sim |-> f] : f \in Thresholds}
ClusterChoices ==
    {[tag |-> "ServerChoice"]} \cup {[tag |-> "ClientChoice", cluster_id |-> u] : u \in U64s}
ClusterAssigns == [cond : AssignConds, choice : ClusterChoices]

PostActions(e) ==
    {[tag |-> "None"]}
    \cup {[tag |-> "InsertNew", cond |-> c, assign |-> a, user_data |-> u] :
            c \in InsertConds, a \in ClusterAssigns, u \in UDValues(e)}

PostActionSample(e) ==
    { [tag |-> "None"],
      [tag |-> "InsertNew", cond |-> [tag |-> "Always"],
       assign |-> [cond |-> [tag |-> "Always"], choice |-> [tag |-> "ServerChoice"]],
       user_data |-> UD_A(e)],
      [tag |-> "InsertNew", cond |-> [tag |-> "BestSimLessThan", sim |-> F64_Half],
       assign |-> [cond |-> [tag |-> "BestSimLessThan", sim |-> F64_Inf],
                   choice |-> [tag |-> "ClientChoice", cluster_id |-> U64_Wide]],
       user_data |-> UD_B(e)] }

LookupTasks(e) == [text : Strs, result : LookupTypes, post_action : PostActionSample(e)]

\* one task per LookupType, each with another text and post action
TaskSample(e) ==
    {t \in LookupTasks(e) :
        \/ t.text = <<>> /\ t.result = "All" /\ t.post_action.tag = "None"
        \/ /\ t.text = <<104, 105>> /\ t.result = "Best"
           /\ t.post_action.tag = "InsertNew" /\ t.post_action.cond.tag = "Always"
        \/ /\ t.text = <<195, 169>> /\ t.result = "BestOrMine"
           /\ t.post_action.tag = "InsertNew" /\ t.post_action.cond.tag # "Always"}

Workloads(all, sample) ==
    {[tag |-> "Single", value |-> v] : v \in all}
    \cup {[tag |-> "Many", values |-> vs] : vs \in SeqsUpTo(sample, MaxMany)}

WorkloadTasks(e) == Workloads(LookupTasks(e), TaskSample(e))

Reqs(e) ==
    {[tag |-> "Init"], [tag |-> "Terminate"]}
    \cup {[tag |-> "Lookup", workload |-> w] : w \in WorkloadTasks(e)}

Transs(e) == [tag : {"Async", "Sync"}, req : Reqs(e)]

Matches(e) == [cluster_id : U64s, similarity : Similarities, user_data : UDValues(e)]

MatchSample(e) ==
    {m \in Matches(e) :
        \/ m.cluster_id = U64_177 /\ m.similarity = F64_Half
        \/ m.cluster_id = U64_Wide /\ m.similarity = F64_Tenth}

WorkloadMatches(e) ==
    Workloads(Matches(e), {m \in MatchSample(e) : m.user_data = UD_B(e)})

LookupResults(e) ==
    {[tag |-> "EmptySet"]}
    \cup {[tag |-> "Best", m |-> m] : m \in Matches(e)}
    \cup {[tag |-> "Neighbours", workload |-> w] : w \in WorkloadMatches(e)}
    \cup {[tag |-> "Error", message |-> s] : s \in Strs}

\* one result per variant
ResultSample(e) ==
    {r \in LookupResults(e) :
        \/ r.tag = "EmptySet"
        \/ r.tag = "Best" /\ r.m \in MatchSample(e) /\ r.m.cluster_id = U64_177
                          /\ r.m.user_data = UD_A(e)
        \/ r.tag = "Neighbours" /\ r.workload.tag = "Many" /\ Len(r.workload.values) = 1
                                /\ r.workload.values[1].cluster_id = U64_Wide
        \/ r.tag = "Error" /\ r.message = <<104, 105>>}

WorkloadResults(e) == Workloads(LookupResults(e), ResultSample(e))

ReqSample(e) ==
    {r \in Reqs(e) :
        \/ r.tag # "Lookup"
        \/ r.workload.tag = "Many" /\ Len(r.workload.values) = 0
        \/ /\ r.workload.tag = "Single"
           /\ r.workload.value.text = <<104, 105>>
           /\ r.workload.value.result = "Best"
           /\ r.workload.value.post_action.tag = "InsertNew"}

Reps(e) ==
    {[tag |-> t] : t \in {"InitAck", "TerminateAck", "TooBusy", "WantCrash"}}
    \cup {[tag |-> "Result", workload |-> w] : w \in WorkloadResults(e)}
    \cup {[tag |-> "Unexpected", req |-> r] : r \in ReqSample(e)}

\* "some data" and "hello world"
Str_some_data == <<115, 111, 109, 101, 32, 100, 97, 116, 97>>
Str_hello_world == <<104, 101, 108, 108, 111, 32, 119, 111, 114, 108, 100>>

\* the value of test::rep_05
rep_05 ==
    [tag |-> "Result",
     workload |-> [tag |-> "Single",
                   value |-> [tag |-> "Best",
                              m |-> [cluster_id |-> U64_177,
                                     similarity |-> F64_Half,
                                     user_data |-> Str_some_data]]]]

\* the value of test::req_01 (json.rs)
req_01 ==
    [tag |-> "Sync",
     req |-> [tag |-> "Lookup",
              workload |-> [tag |-> "Single",
                            value |-> [text |-> Str_hello_world,
                                       result |-> "All",
                                       post_action |-> [tag |-> "None"]]]]]

\* the values of the tests, which exist for UD = String
TestReps(e) == IF e.ud = "String" THEN {rep_05} ELSE {}
TestTranss(e) == IF e.ud = "String" THEN {req_01} ELSE {}

Values(ty, e) ==
    CASE ty = "Trans" -> Transs(e) \cup TestTranss(e)
      [] ty = "Req" -> Reqs(e)
      [] ty = "WorkloadTask" -> WorkloadTasks(e)
      [] ty = "LookupTask" -> LookupTasks(e)
      [] ty = "LookupType" -> LookupTypes
      [] ty = "PostAction" -> PostActions(e)
      [] ty = "InsertCond" -> InsertConds
      [] ty = "ClusterAssign" -> ClusterAssigns
      [] ty = "AssignCond" -> AssignConds
      [] ty = "ClusterChoice" -> ClusterChoices
      [] ty = "Rep" -> Reps(e) \cup TestReps(e)
      [] ty = "WorkloadResult" -> WorkloadResults(e)
      [] ty = "LookupResult" -> LookupResults(e)
      [] ty = "WorkloadMatch" -> WorkloadMatches(e)
      [] ty = "Match" -> Matches(e)
      [] ty = "String" -> Strs
      [] ty = "u64" -> U64s
      [] ty = "f64" -> F64s

(***************************************************************************)
(* rustc_serialize::json::Json, the tree both directions of the text codec *)
(* work on.  An Object is a function from its keys (strings) to nodes; the *)
(* payload of a String node is the string's bytes.                         *)
(***************************************************************************)
JNull == [k |-> "Null"]
JString(s) == [k |-> "String", s |-> s]
JU64(u) == [k |-> "U64", u |-> u]
JF64(f) == [k |-> "F64", f |-> f]
JArray(items) == [k |-> "Array", items |-> items]
JObject(o) == [k |-> "Object", o |-> o]
JI64(i) == [k |-> "I64", i |-> i]

IsString(json, token) == json.k = "String" /\ json.s = token
Has(json, key) == key \in DOMAIN json.o

\* the tokens of the text form, as the bytes of their string literals
Str_all == <<97, 108, 108>>
Str_best == <<98, 101, 115, 116>>
Str_best_or_mine == <<98, 101, 115, 116, 95, 111, 114, 95, 109, 105, 110, 101>>
Str_always == <<97, 108, 119, 97, 121, 115>>
Str_server_choice == <<115, 101, 114, 118, 101, 114, 95, 99, 104, 111, 105, 99, 101>>
Str_none == <<110, 111, 110, 101>>
Str_init == <<105, 110, 105, 116>>
Str_terminate == <<116, 101, 114, 109, 105, 110, 97, 116, 101>>
Str_init_ack == <<105, 110, 105, 116, 95, 97, 99, 107>>
Str_terminate_ack == <<116, 101, 114, 109, 105, 110, 97, 116, 101, 95, 97, 99, 107>>
Str_too_busy == <<116, 111, 111, 95, 98, 117, 115, 121>>
Str_want_crash == <<119, 97, 110, 116, 95, 99, 114, 97, 115, 104>>

\* Ok(value) and Err(JsonDecodeError::..(node))
JOk(v) == [ok |-> TRUE, val |-> v]
UnexpectedToken(json) == [ok |-> FALSE, err |-> "UnexpectedToken", node |-> json]
MalformedObject(json) == [ok |-> FALSE, err |-> "MalformedObject", node |-> json]
\* no FromJson implementation exists for the type asked for: there is nothing to call
NoFromJson(json) == [ok |-> FALSE, err |-> "NoFromJsonImpl", node |-> json]

(***************************************************************************)
(* ToJson of the primitive fields (rustc_serialize): u64 -> U64, String -> *)
(* String, and f64 -> F64 unless the number is NaN or infinite, which      *)
(* becomes Null.                                                           *)
(***************************************************************************)
\* f64::classify() is Nan or Infinite: all eleven exponent bits set
IsNanOrInfinite(f) == f[1] % 128 = 127 /\ f[2] >= 240

F64ToJson(f) == IF IsNanOrInfinite(f) THEN JNull ELSE JF64(f)
U64ToJson(u) == JU64(u)
StringToJson(s) == JString(s)

UDToJson(e, v) == IF e.ud = "String" THEN StringToJson(v) ELSE F64ToJson(v)

(***************************************************************************)
(* <T as ToJson>::to_json and <T as FromJson>::from_json for the type      *)
(* named ty: the dispatch is defined once every implementation is, below.  *)
(***************************************************************************)
RECURSIVE ToJson(_, _, _)
RECURSIVE FromJson(_, _, _)

(***************************************************************************)
(* ToJson for the model types.                                             *)
(***************************************************************************)
\* to_json of LookupType naming BestOrMine "best_or_my" (a faulty variant).
LookupTypeToJson_Misnamed(v) ==
    CASE v = "All" -> JString(Str_all)
      [] v = "Best" -> JString(Str_best)
      [] v = "BestOrMine" -> JString(<<98, 101, 115, 116, 95, 111, 114, 95, 109, 121>>)

LookupTypeToJson(v) ==
    CASE v = "All" -> JString(Str_all)
      [] v = "Best" -> JString(Str_best)
      [] v = "BestOrMine" -> JString(Str_best_or_mine)

AssignCondToJson(v) ==
    IF v.tag = "Always" THEN JString(Str_always)
    ELSE JObject([best_sim_less_than |-> F64ToJson(v.sim)])

ClusterChoiceToJson(v) ==
    IF v.tag = "ServerChoice" THEN JString(Str_server_choice)
    ELSE JObject([client_choice |-> U64ToJson(v.cluster_id)])

ClusterAssignToJson(v) ==
    JObject([cond |-> AssignCondToJson(v.cond), choice |-> ClusterChoiceToJson(v.choice)])

InsertCondToJson(v) ==
    IF v.tag = "Always" THEN JString(Str_always)
    ELSE JObject([best_sim_less_than |-> F64ToJson(v.sim)])

PostActionToJson(e, v) ==
    IF v.tag = "None" THEN JString(Str_none)
    ELSE JObject([cond |-> InsertCondToJson(v.cond),
                  assign |-> ClusterAssignToJson(v.assign),
                  user_data |-> UDToJson(e, v.user_data)])

LookupTaskToJson(e, v) ==
    JObject([text |-> StringToJson(v.text),
             result |-> LookupTypeToJson(v.result),
             post_action |-> PostActionToJson(e, v.post_action)])

\* to_json of Workload writing Single as an array of one element (a faulty variant).
WorkloadToJson_AlwaysArray(T, e, v) ==
    IF v.tag = "Single" THEN JArray(<<ToJson(T, e, v.value)>>)
    ELSE JArray([i \in 1..Len(v.values) |-> ToJson(T, e, v.values[i])])

\* Single: the element's own tree.  Many: Vec<T>::to_json, an Array.
WorkloadToJson(T, e, v) ==
    IF v.tag = "Single" THEN ToJson(T, e, v.value)
    ELSE JArray([i \in 1..Len(v.values) |-> ToJson(T, e, v.values[i])])

ReqToJson(e, v) ==
    CASE v.tag = "Init" -> JString(Str_init)
      [] v.tag = "Lookup" ->
            JObject([lookup |-> WorkloadToJson("LookupTask", e, v.workload)])
      [] v.tag = "Terminate" -> JString(Str_terminate)

\* to_json of Trans with the keys of its two variants exchanged (a faulty variant).
TransToJson_KeysExchanged(e, v) ==
    IF v.tag = "Async" THEN JObject([sync |-> ReqToJson(e, v.req)])
    ELSE JObject([async |-> ReqToJson(e, v.req)])

TransToJson(e, v) ==
    IF v.tag = "Async" THEN JObject([async |-> ReqToJson(e, v.req)])
    ELSE JObject([sync |-> ReqToJson(e, v.req)])

MatchToJson(e, v) ==
    JObject([cluster_id |-> U64ToJson(v.cluster_id),
             similarity |-> F64ToJson(v.similarity),
             user_data |-> UDToJson(e, v.user_data)])

LookupResultToJson(e, v) ==
    CASE v.tag = "EmptySet" -> JNull
      [] v.tag = "Best" -> JObject([best |-> MatchToJson(e, v.m)])
      [] v.tag = "Neighbours" ->
            JObject([neighbours |-> WorkloadToJson("Match", e, v.workload)])
      [] v.tag = "Error" -> JObject([error |-> StringToJson(v.message)])

RepToJson(e, v) ==
    CASE v.tag = "InitAck" -> JString(Str_init_ack)
      [] v.tag = "Result" ->
            JObject([result |->
                WorkloadToJson("LookupResult", e, v.workload)])
      [] v.tag = "TerminateAck" -> JString(Str_terminate_ack)
      [] v.tag = "Unexpected" -> JObject([unexpected |-> ReqToJson(e, v.req)])
      [] v.tag = "TooBusy" -> JString(Str_too_busy)
      [] v.tag = "WantCrash" -> JString(Str_want_crash)

(***************************************************************************)
(* FromJson.                                                               *)
(***************************************************************************)
StringFromJson(json) ==
    IF json.k = "String" THEN JOk(json.s) ELSE UnexpectedToken(json)

\* json.rs implements FromJson for String and for no other payload type: with
\* UD = f64 the bound `UD: FromJson` of every generic impl is unsatisfied.
UDHasFromJson(e) == e.ud = "String"

UDFromJson(e, json) == IF UDHasFromJson(e) THEN StringFromJson(json) ELSE NoFromJson(json)

LookupTypeFromJson(json) ==
    CASE IsString(json, Str_all) -> JOk("All")
      [] IsString(json, Str_best) -> JOk("Best")
      [] IsString(json, Str_best_or_mine) -> JOk("BestOrMine")
      [] OTHER -> UnexpectedToken(json)

InsertCondFromJson(json) ==
    CASE IsString(json, Str_always) -> JOk([tag |-> "Always"])
      [] json.k = "Object" ->
            IF Has(json, "best_sim_less_than") /\ json.o["best_sim_less_than"].k = "F64"
            THEN JOk([tag |-> "BestSimLessThan", sim |-> json.o["best_sim_less_than"].f])
            ELSE MalformedObject(json)
      [] OTHER -> UnexpectedToken(json)

AssignCondFromJson(json) ==
    CASE IsString(json, Str_always) -> JOk([tag |-> "Always"])
      [] json.k = "Object" ->
            IF Has(json, "best_sim_less_than") /\ json.o["best_sim_less_than"].k = "F64"
            THEN JOk([tag |-> "BestSimLessThan", sim |-> json.o["best_sim_less_than"].f])
            ELSE MalformedObject(json)
      [] OTHER -> UnexpectedToken(json)

ClusterChoiceFromJson(json) ==
    CASE IsString(json, Str_server_choice) -> JOk([tag |-> "ServerChoice"])
      [] json.k = "Object" ->
            IF Has(json, "client_choice") /\ json.o["client_choice"].k = "U64"
            THEN JOk([tag |-> "ClientChoice", cluster_id |-> json.o["client_choice"].u])
            ELSE UnexpectedToken(json)
      [] OTHER -> UnexpectedToken(json)

ClusterAssignFromJson(json) ==
    IF json.k = "Object"
    THEN IF Has(json, "cond") /\ Has(json, "choice")
         THEN AndThen(AssignCondFromJson(json.o["cond"]), LAMBDA cond :
              AndThen(ClusterChoiceFromJson(json.o["choice"]), LAMBDA choice :
                  JOk([cond |-> cond.val, choice |-> choice.val])))
         ELSE MalformedObject(json)
    ELSE UnexpectedToken(json)

PostActionFromJson(e, json) ==
    CASE IsString(json, Str_none) -> JOk([tag |-> "None"])
      [] json.k = "Object" ->
            IF Has(json, "cond") /\ Has(json, "assign") /\ Has(json, "user_data")
            THEN AndThen(InsertCondFromJson(json.o["cond"]), LAMBDA cond :
                 AndThen(ClusterAssignFromJson(json.o["assign"]), LAMBDA assign :
                 AndThen(UDFromJson(e, json.o["user_data"]), LAMBDA user_data :
                     JOk([tag |-> "InsertNew",
                          cond |-> cond.val,
                          assign |-> assign.val,
                          user_data |-> user_data.val]))))
            ELSE MalformedObject(json)
      [] OTHER -> UnexpectedToken(json)

\* from_json of LookupTask refusing an object with a key it does not read (a
\* faulty variant).
LookupTaskFromJson_NoOtherKeys(e, json) ==
    IF json.k = "Object"
    THEN IF DOMAIN json.o = {"text", "result", "post_action"}
         THEN AndThen(StringFromJson(json.o["text"]), LAMBDA text :
              AndThen(LookupTypeFromJson(json.o["result"]), LAMBDA result :
              AndThen(PostActionFromJson(e, json.o["post_action"]), LAMBDA post_action :
                  JOk([text |-> text.val,
                       result |-> result.val,
                       post_action |-> post_action.val]))))
         ELSE MalformedObject(json)
    ELSE UnexpectedToken(json)

LookupTaskFromJson(e, json) ==
    IF json.k = "Object"
    THEN IF Has(json, "text") /\ Has(json, "result") /\ Has(json, "post_action")
         THEN AndThen(StringFromJson(json.o["text"]), LAMBDA text :
              AndThen(LookupTypeFromJson(json.o["result"]), LAMBDA result :
              AndThen(PostActionFromJson(e, json.o["post_action"]), LAMBDA post_action :
                  JOk([text |-> text.val,
                       result |-> result.val,
                       post_action |-> post_action.val]))))
         ELSE MalformedObject(json)
    ELSE UnexpectedToken(json)

\* obj.iter().map(from_json).collect(): the elements in order, or the first error
RECURSIVE CollectFromJson(_, _, _, _)
CollectFromJson(T, e, items, values) ==
    IF Len(items) = 0 THEN JOk([tag |-> "Many", values |-> values])
    ELSE AndThen(FromJson(T, e, Head(items)), LAMBDA value :
            CollectFromJson(T, e, Tail(items), Append(values, value.val)))

\* from_json of Workload taking only a non-empty array for Many (a faulty variant).
WorkloadFromJson_NonEmptyArray(T, e, json) ==
    IF json.k = "Array" /\ Len(json.items) > 0 THEN CollectFromJson(T, e, json.items, <<>>)
    ELSE AndThen(FromJson(T, e, json), LAMBDA value :
            JOk([tag |-> "Single", value |-> value.val]))

WorkloadFromJson(T, e, json) ==
    IF json.k = "Array" THEN CollectFromJson(T, e, json.items, <<>>)
    ELSE AndThen(FromJson(T, e, json), LAMBDA value :
            JOk([tag |-> "Single", value |-> value.val]))

ReqFromJson(e, json) ==
    CASE IsString(json, Str_init) -> JOk([tag |-> "Init"])
      [] IsString(json, Str_terminate) -> JOk([tag |-> "Terminate"])
      [] json.k = "Object" ->
            IF Has(json, "lookup")
            THEN AndThen(WorkloadFromJson("LookupTask", e, json.o["lookup"]),
                         LAMBDA workload : JOk([tag |-> "Lookup", workload |-> workload.val]))
            ELSE MalformedObject(json)
      [] OTHER -> UnexpectedToken(json)

\* from_json of Trans looking for "async" first and for "sync" only without it (a
\* faulty variant).
TransFromJson_AsyncFirst(e, json) ==
    IF json.k = "Object"
    THEN CASE Has(json, "async") ->
                AndThen(ReqFromJson(e, json.o["async"]), LAMBDA req :
                    JOk([tag |-> "Async", req |-> req.val]))
           [] Has(json, "sync") ->
                AndThen(ReqFromJson(e, json.o["sync"]), LAMBDA req :
                    JOk([tag |-> "Sync", req |-> req.val]))
           [] OTHER -> MalformedObject(json)
    ELSE UnexpectedToken(json)

TransFromJson(e, json) ==
    IF json.k = "Object"
    THEN CASE Has(json, "async") /\ ~Has(json, "sync") ->
                AndThen(ReqFromJson(e, json.o["async"]), LAMBDA req :
                    JOk([tag |-> "Async", req |-> req.val]))
           [] ~Has(json, "async") /\ Has(json, "sync") ->
                AndThen(ReqFromJson(e, json.o["sync"]), LAMBDA req :
                    JOk([tag |-> "Sync", req |-> req.val]))
           [] OTHER -> MalformedObject(json)
    ELSE UnexpectedToken(json)

\* from_json of Match reading an integer node as the similarity, as as_f64 would
\* (a faulty variant).
MatchFromJson_IntegerAsFloat(e, json) ==
    IF json.k = "Object"
    THEN IF /\ Has(json, "cluster_id") /\ json.o["cluster_id"].k = "U64"
            /\ Has(json, "similarity") /\ json.o["similarity"].k \in {"F64", "U64"}
            /\ Has(json, "user_data")
         THEN AndThen(UDFromJson(e, json.o["user_data"]), LAMBDA user_data :
                  JOk([cluster_id |-> json.o["cluster_id"].u,
                       similarity |-> IF json.o["similarity"].k = "F64"
                                      THEN json.o["similarity"].f
                                      ELSE json.o["similarity"].u,
                       user_data |-> user_data.val]))
         ELSE MalformedObject(json)
    ELSE UnexpectedToken(json)

MatchFromJson(e, json) ==
    IF json.k = "Object"
    THEN IF /\ Has(json, "cluster_id") /\ json.o["cluster_id"].k = "U64"
            /\ Has(json, "similarity") /\ json.o["similarity"].k = "F64"
            /\ Has(json, "user_data")
         THEN AndThen(UDFromJson(e, json.o["user_data"]), LAMBDA user_data :
                  JOk([cluster_id |-> json.o["cluster_id"].u,
                       similarity |-> json.o["similarity"].f,
                       user_data |-> user_data.val]))
         ELSE MalformedObject(json)
    ELSE UnexpectedToken(json)

LookupResultFromJson(e, json) ==
    CASE json.k = "Null" -> JOk([tag |-> "EmptySet"])
      [] json.k = "Object" ->
            CASE Has(json, "best") /\ ~Has(json, "neighbours") /\ ~Has(json, "error") ->
                    AndThen(MatchFromJson(e, json.o["best"]), LAMBDA m :
                        JOk([tag |-> "Best", m |-> m.val]))
              [] ~Has(json, "best") /\ Has(json, "neighbours") /\ ~Has(json, "error") ->
                    AndThen(WorkloadFromJson("Match", e, json.o["neighbours"]),
                            LAMBDA workload :
                        JOk([tag |-> "Neighbours", workload |-> workload.val]))
              [] ~Has(json, "best") /\ ~Has(json, "neighbours") /\ Has(json, "error") ->
                    AndThen(StringFromJson(json.o["error"]), LAMBDA message :
                        JOk([tag |-> "Error", message |-> message.val]))
              [] OTHER -> MalformedObject(json)
      [] OTHER -> UnexpectedToken(json)

RepFromJson(e, json) ==
    CASE IsString(json, Str_init_ack) -> JOk([tag |-> "InitAck"])
      [] IsString(json, Str_terminate_ack) -> JOk([tag |-> "TerminateAck"])
      [] IsString(json, Str_too_busy) -> JOk([tag |-> "TooBusy"])
      [] IsString(json, Str_want_crash) -> JOk([tag |-> "WantCrash"])
      [] json.k = "Object" ->
            CASE Has(json, "result") /\ ~Has(json, "unexpected") ->
                    AndThen(WorkloadFromJson("LookupResult", e, json.o["result"]),
                            LAMBDA workload :
                        JOk([tag |-> "Result", workload |-> workload.val]))
              [] ~Has(json, "result") /\ Has(json, "unexpected") ->
                    AndThen(ReqFromJson(e, json.o["unexpected"]), LAMBDA req :
                        JOk([tag |-> "Unexpected", req |-> req.val]))
              [] OTHER -> MalformedObject(json)
      [] OTHER -> UnexpectedToken(json)

(***************************************************************************)
(* <T as ToJson> / <T as FromJson> for the type named ty.  The impls for   *)
(* the types generic in UD carry the bound UD: FromJson.                   *)
(***************************************************************************)
JsonTypes == Types \ {"u64", "f64"}

GenericInUD ==
    {"Trans", "Req", "WorkloadTask", "LookupTask", "PostAction",
     "Rep", "WorkloadResult", "LookupResult", "WorkloadMatch", "Match"}

ToJson(ty, e, v) ==
    CASE ty = "Trans" -> TransToJson(e, v)
      [] ty = "Req" -> ReqToJson(e, v)
      [] ty = "WorkloadTask" -> WorkloadToJson("LookupTask", e, v)
      [] ty = "LookupTask" -> LookupTaskToJson(e, v)
      [] ty = "LookupType" -> LookupTypeToJson(v)
      [] ty = "PostAction" -> PostActionToJson(e, v)
      [] ty = "InsertCond" -> InsertCondToJson(v)
      [] ty = "ClusterAssign" -> ClusterAssignToJson(v)
      [] ty = "AssignCond" -> AssignCondToJson(v)
      [] ty = "ClusterChoice" -> ClusterChoiceToJson(v)
      [] ty = "Rep" -> RepToJson(e, v)
      [] ty = "WorkloadResult" -> WorkloadToJson("LookupResult", e, v)
      [] ty = "LookupResult" -> LookupResultToJson(e, v)
      [] ty = "WorkloadMatch" -> WorkloadToJson("Match", e, v)
      [] ty = "Match" -> MatchToJson(e, v)
      [] ty = "String" -> StringToJson(v)

FromJson(ty, e, json) ==
    IF ty \in GenericInUD /\ ~UDHasFromJson(e) THEN NoFromJson(json)
    ELSE CASE ty = "Trans" -> TransFromJson(e, json)
           [] ty = "Req" -> ReqFromJson(e, json)
           [] ty = "WorkloadTask" ->
                WorkloadFromJson("LookupTask", e, json)
           [] ty = "LookupTask" -> LookupTaskFromJson(e, json)
           [] ty = "LookupType" -> LookupTypeFromJson(json)
           [] ty = "PostAction" -> PostActionFromJson(e, json)
           [] ty = "InsertCond" -> InsertCondFromJson(json)
           [] ty = "ClusterAssign" -> ClusterAssignFromJson(json)
           [] ty = "AssignCond" -> AssignCondFromJson(json)
           [] ty = "ClusterChoice" -> ClusterChoiceFromJson(json)
           [] ty = "Rep" -> RepFromJson(e, json)
           [] ty = "WorkloadResult" ->
                WorkloadFromJson("LookupResult", e, json)
           [] ty = "LookupResult" -> LookupResultFromJson(e, json)
           [] ty = "WorkloadMatch" -> WorkloadFromJson("Match", e, json)
           [] ty = "Match" -> MatchFromJson(e, json)
           [] ty = "String" -> StringFromJson(json)

(***************************************************************************)
(* The state: one value of one type on one host, taken through the codecs. *)
(*   ty, env, val  the type, the host and UD type, the value constructed   *)
(*   pc            what has been done with it                              *)
(*   enc           the area encode returned (buffer, offset of the tail)   *)
(*   area          the slice handed to decode, or the text to be parsed    *)
(*   res           what decode returned                                    *)
(*   json          the tree to_json returned, or from_json was given       *)
(*   jres          what from_json or json_str_to_anything returned         *)
(*   sib           the value encoded right after val, with its type        *)
(*   threads       the calls several threads are making, one record each   *)
(*   wide          a string or sequence known by its length alone          *)
(***************************************************************************)
VARIABLES ty, env, val, pc, enc, area, res, json, jres, sib, threads, wide

vars ==
    <<ty, env, val, pc, enc, area, res, json, jres, sib, threads, wide>>

NoResult == [ok |-> FALSE, err |-> "none", tag |-> 0]

NoSibling == [t |-> "none", v |-> <<>>]

NoWide == [stage |-> "none"]

\* leading bytes tried in place of a tag
TagBytes == 0..8 \cup {127, 128, 255}

\* bytes a corrupted string payload is drawn from: ASCII, a continuation byte,
\* lead bytes of 2-, 3- and 4-byte forms, and bytes that never occur in UTF-8
PayloadBytes == {65, 169, 195, 226, 240, 192, 255}

OtherHost(h) == IF h = "LE" THEN "BE" ELSE "LE"

\* encode into a zeroed buffer of exactly encode_len bytes: the bytes of v
Bytes(t, e, v) == Encode(t, e, v, NewArea(Zeros(EncodeLen(t, e, v)))).buf

Init ==
    /\ ty \in Types
    /\ env \in Envs
    /\ val \in Values(ty, env)
    /\ pc = "built"
    /\ enc = NewArea(<<>>)
    /\ area = <<>>
    /\ res = NoResult
    /\ json = JNull
    /\ jres = NoResult
    /\ sib = NoSibling
    /\ threads = <<>>
    /\ wide = NoWide

\* test::encode_decode (bin.rs), first half: a zeroed packet of encode_len bytes,
\* encoded into.
EncodeValue ==
    /\ pc = "built"
    /\ enc' = Encode(ty, env, val, NewArea(Zeros(EncodeLen(ty, env, val))))
    /\ pc' = "encoded"
    /\ UNCHANGED <<ty, env, val, area, res, json, jres, sib, threads, wide>>

\* test::encode_decode (bin.rs), second half: the packet decoded.
DecodeValue ==
    /\ pc = "encoded"
    /\ area' = enc.buf
    /\ res' = Decode(ty, env, enc.buf)
    /\ pc' = "decoded"
    /\ UNCHANGED <<ty, env, val, enc, json, jres, sib, threads, wide>>

\* decode of the first k bytes of the packet only
DecodeTruncated ==
    /\ pc = "encoded"
    /\ \E k \in 0..(Len(enc.buf) - 1) :
          /\ area' = SubSeq(enc.buf, 1, k)
          /\ res' = Decode(ty, env, SubSeq(enc.buf, 1, k))
    /\ pc' = "truncated"
    /\ UNCHANGED <<ty, env, val, enc, json, jres, sib, threads, wide>>

\* decode of the packet with its first byte replaced
DecodeRetagged ==
    /\ pc = "encoded"
    /\ \E t \in TagBytes :
          /\ t # enc.buf[1]
          /\ area' = <<t>> \o Tail(enc.buf)
          /\ res' = Decode(ty, env, <<t>> \o Tail(enc.buf))
    /\ pc' = "retagged"
    /\ UNCHANGED <<ty, env, val, enc, json, jres, sib, threads, wide>>

\* decode of a slice holding one byte
DecodeOneByte ==
    /\ pc = "built"
    /\ \E t \in TagBytes :
          /\ area' = <<t>>
          /\ res' = Decode(ty, env, <<t>>)
    /\ pc' = "probed"
    /\ UNCHANGED <<ty, env, val, enc, json, jres, sib, threads, wide>>

\* decode of an encoded String whose payload bytes were replaced, the length kept
DecodeCorrupted ==
    /\ pc = "encoded"
    /\ ty = "String"
    /\ \E bytes \in SeqsUpTo(PayloadBytes, Len(val)) :
          /\ Len(bytes) = Len(val)
          /\ area' = SubSeq(enc.buf, 1, 4) \o bytes
          /\ res' = Decode(ty, env, SubSeq(enc.buf, 1, 4) \o bytes)
    /\ pc' = "corrupted"
    /\ UNCHANGED <<ty, env, val, enc, json, jres, sib, threads, wide>>

\* decode of the packet on a machine of the other byte order
DecodeOnPeer ==
    /\ pc = "encoded"
    /\ area' = enc.buf
    /\ res' = Decode(ty, [env EXCEPT !.host = OtherHost(env.host)], enc.buf)
    /\ pc' = "peer"
    /\ UNCHANGED <<ty, env, val, enc, json, jres, sib, threads, wide>>

\* test::encode_decode (json.rs), first half: value.to_json()
ToJsonValue ==
    /\ pc = "built"
    /\ ty \in JsonTypes
    /\ json' = ToJson(ty, env, val)
    /\ pc' = "jsoned"
    /\ UNCHANGED <<ty, env, val, enc, area, res, jres, sib, threads, wide>>

\* test::encode_decode (json.rs), second half: <T as FromJson>::from_json(&json)
FromJsonValue ==
    /\ pc = "jsoned"
    /\ jres' = FromJson(ty, env, json)
    /\ pc' = "unjsoned"
    /\ UNCHANGED <<ty, env, val, enc, area, res, json, sib, threads, wide>>

\* keys looked up by some from_json, and one that none looks up
NodeKeys ==
    {"async", "sync", "lookup", "text", "result", "post_action", "cond", "assign",
     "choice", "user_data", "best_sim_less_than", "client_choice", "cluster_id",
     "similarity", "best", "neighbours", "error", "unexpected", "extra"}

\* nodes of every shape: null, strings that are a token of some type or of none, the
\* two numbers, arrays, and objects without the keys of any variant
ShapeNodes ==
    {JNull, JString(Str_init), JString(Str_all), JString(<<120>>), JU64(U64_177),
     JF64(F64_Half), JArray(<<>>), JArray(<<JNull>>), JObject(<<>>),
     JObject([extra |-> JNull])}

WithoutKey(o, key) == [k \in DOMAIN o \ {key} |-> o[k]]
WithKey(o, key, node) == [k \in DOMAIN o \cup {key} |-> IF k = key THEN node ELSE o[k]]

\* the trees that differ from json at its root: one key taken away, one key added
\* or its node replaced by null, or another shape altogether
ForeignNodes(node) ==
    ShapeNodes
    \cup (IF node.k = "Object"
          THEN {JObject(WithoutKey(node.o, key)) : key \in DOMAIN node.o}
               \cup {JObject(WithKey(node.o, key, JNull)) : key \in NodeKeys}
          ELSE {})

\* from_json of a tree no to_json of the type returned; only where the type has a
\* from_json to call
FromJsonForeign ==
    /\ pc = "jsoned"
    /\ ty \notin GenericInUD \/ UDHasFromJson(env)
    /\ \E node \in ForeignNodes(json) :
          /\ json' = node
          /\ jres' = FromJson(ty, env, node)
    /\ pc' = "foreign"
    /\ UNCHANGED <<ty, env, val, enc, area, res, sib, threads, wide>>

\* a node of each primitive kind: the string "1", the integers 177 and -1, the
\* float 0.5, null
PrimitiveNodes == {JString(<<49>>), JU64(U64_177), JI64(-1), JF64(F64_Half), JNull}

\* the trees that differ from json in the kind of one node: the node of one key,
\* or the root when it is no object
MiskindedNodes(node) ==
    IF node.k = "Object"
    THEN {JObject(WithKey(node.o, key, n)) : key \in DOMAIN node.o, n \in PrimitiveNodes}
    ELSE PrimitiveNodes

\* from_json of a tree in which a node of another primitive kind stands
FromJsonMiskinded ==
    /\ pc = "jsoned"
    /\ ty \notin GenericInUD \/ UDHasFromJson(env)
    /\ \E node \in MiskindedNodes(json) :
          /\ json' = node
          /\ jres' = FromJson(ty, env, node)
    /\ pc' = "miskinded"
    /\ UNCHANGED <<ty, env, val, enc, area, res, sib, threads, wide>>

(***************************************************************************)
(* Text: json_str_to_anything parses a string into a tree, hands the tree  *)
(* to from_json and reports a failure of either as a message.  The texts   *)
(* of the model hold no escape, no sign and no exponent.                   *)
(***************************************************************************)

\* the keys of an object in the order its map iterates them
SortedKeys ==
    << "assign", "async", "best", "best_sim_less_than", "choice",
       "client_choice", "cluster_id", "cond", "error", "extra", "lookup",
       "neighbours", "post_action", "result", "similarity", "sync", "text",
       "unexpected", "user_data" >>

KeyBytes(key) ==
    CASE key = "assign" -> <<97, 115, 115, 105, 103, 110>>
      [] key = "async" -> <<97, 115, 121, 110, 99>>
      [] key = "best" -> <<98, 101, 115, 116>>
      [] key = "best_sim_less_than" ->
            <<98, 101, 115, 116, 95, 115, 105, 109, 95, 108, 101, 115, 115, 95,
              116, 104, 97, 110>>
      [] key = "choice" -> <<99, 104, 111, 105, 99, 101>>
      [] key = "client_choice" ->
            <<99, 108, 105, 101, 110, 116, 95, 99, 104, 111, 105, 99, 101>>
      [] key = "cluster_id" -> <<99, 108, 117, 115, 116, 101, 114, 95, 105, 100>>
      [] key = "cond" -> <<99, 111, 110, 100>>
      [] key = "error" -> <<101, 114, 114, 111, 114>>
      [] key = "extra" -> <<101, 120, 116, 114, 97>>
      [] key = "lookup" -> <<108, 111, 111, 107, 117, 112>>
      [] key = "neighbours" -> <<110, 101, 105, 103, 104, 98, 111, 117, 114, 115>>
      [] key = "post_action" -> <<112, 111, 115, 116, 95, 97, 99, 116, 105, 111, 110>>
      [] key = "result" -> <<114, 101, 115, 117, 108, 116>>
      [] key = "similarity" -> <<115, 105, 109, 105, 108, 97, 114, 105, 116, 121>>
      [] key = "sync" -> <<115, 121, 110, 99>>
      [] key = "text" -> <<116, 101, 120, 116>>
      [] key = "unexpected" -> <<117, 110, 101, 120, 112, 101, 99, 116, 101, 100>>
      [] key = "user_data" -> <<117, 115, 101, 114, 95, 100, 97, 116, 97>>

Txt_null == <<110, 117, 108, 108>>
Txt_177 == <<49, 55, 55>>
Txt_Wide == <<55, 50, 54, 50, 51, 56, 53, 57, 55, 57, 48, 51, 56, 50, 56, 53, 54>>
Txt_Half == <<48, 46, 53>>
Txt_Tenth == <<48, 46, 49>>

\* the decimal text of a number of the model
NumberText(node) ==
    CASE node = JU64(U64_177) -> Txt_177
      [] node = JU64(U64_Wide) -> Txt_Wide
      [] node = JF64(F64_Half) -> Txt_Half
      [] node = JF64(F64_Tenth) -> Txt_Tenth
      [] OTHER -> node.text

RECURSIVE Render(_)
RECURSIVE RenderItems(_)
RECURSIVE RenderMembers(_, _)

\* Display of a Json tree: the compact form, keys in the order of the map
Render(node) ==
    CASE node.k = "Null" -> Txt_null
      [] node.k = "String" -> <<34>> \o node.s \o <<34>>
      [] node.k \in {"U64", "F64"} -> NumberText(node)
      [] node.k = "Array" -> <<91>> \o RenderItems(node.items) \o <<93>>
      [] node.k = "Object" ->
            <<123>> \o RenderMembers(node.o,
                           SelectSeq(SortedKeys, LAMBDA key : key \in DOMAIN node.o))
                    \o <<125>>

RenderItems(items) ==
    IF items = <<>> THEN <<>>
    ELSE Render(Head(items))
           \o (IF Len(items) > 1 THEN <<44>> \o RenderItems(Tail(items)) ELSE <<>>)

RenderMembers(o, keys) ==
    IF keys = <<>> THEN <<>>
    ELSE <<34>> \o KeyBytes(Head(keys)) \o <<34, 58>> \o Render(o[Head(keys)])
           \o (IF Len(keys) > 1 THEN <<44>> \o RenderMembers(o, Tail(keys)) ELSE <<>>)

SyntaxError == [ok |-> FALSE, err |-> "SyntaxError"]

RECURSIVE SkipWhitespace(_)
SkipWhitespace(s) ==
    IF s # <<>> /\ s[1] \in {32, 9, 10, 13} THEN SkipWhitespace(Tail(s)) ELSE s

\* the first byte of s after whitespace, 0 at the end of the text
Peek(s) == IF SkipWhitespace(s) = <<>> THEN 0 ELSE SkipWhitespace(s)[1]

\* s after whitespace and one more byte
Bump(s) == Tail(SkipWhitespace(s))

RECURSIVE NumberRun(_)
NumberRun(s) ==
    IF s # <<>> /\ s[1] \in (48..57) \cup {46} THEN <<s[1]>> \o NumberRun(Tail(s))
    ELSE <<>>

\* digits, or digits "." digits; no leading zero before another digit
IsNumber(run) ==
    /\ run[Len(run)] # 46
    /\ Cardinality({i \in 1..Len(run) : run[i] = 46}) <= 1
    /\ run[1] = 48 => (Len(run) = 1 \/ run[2] = 46)

NumberNode(run) ==
    CASE run = Txt_177 -> JU64(U64_177)
      [] run = Txt_Wide -> JU64(U64_Wide)
      [] run = Txt_Half -> JF64(F64_Half)
      [] run = Txt_Tenth -> JF64(F64_Tenth)
      [] OTHER -> [k |-> IF \E i \in 1..Len(run) : run[i] = 46 THEN "F64" ELSE "U64",
                   text |-> run]

\* s starts with a digit
ParseNumber(s) ==
    IF IsNumber(NumberRun(s))
    THEN Ok(NumberNode(NumberRun(s)), SubSeq(s, Len(NumberRun(s)) + 1, Len(s)))
    ELSE SyntaxError

\* the index of the closing quote at or after i, 0 if there is none
RECURSIVE ClosingQuote(_, _)
ClosingQuote(s, i) ==
    IF i > Len(s) THEN 0 ELSE IF s[i] = 34 THEN i ELSE ClosingQuote(s, i + 1)

\* s follows an opening quote
ParseString(s) ==
    IF ClosingQuote(s, 1) = 0 THEN SyntaxError
    ELSE Ok(SubSeq(s, 1, ClosingQuote(s, 1) - 1),
            SubSeq(s, ClosingQuote(s, 1) + 1, Len(s)))

KeyName(bytes) ==
    IF \E i \in 1..Len(SortedKeys) : KeyBytes(SortedKeys[i]) = bytes
    THEN SortedKeys[CHOOSE i \in 1..Len(SortedKeys) : KeyBytes(SortedKeys[i]) = bytes]
    ELSE "other"

RECURSIVE ParseValue(_)
RECURSIVE ParseElements(_, _)
RECURSIVE ParseMembers(_, _)

ParseLiteral(s, word, node) ==
    IF Len(s) >= Len(word) /\ SubSeq(s, 1, Len(word)) = word
    THEN Ok(node, SubSeq(s, Len(word) + 1, Len(s)))
    ELSE SyntaxError

ParseValue(s) ==
    CASE Peek(s) = 110 -> ParseLiteral(SkipWhitespace(s), Txt_null, JNull)
      [] Peek(s) = 34 ->
            AndThen(ParseString(Bump(s)), LAMBDA r : Ok(JString(r.val), r.rest))
      [] Peek(s) \in 48..57 -> ParseNumber(SkipWhitespace(s))
      [] Peek(s) = 91 ->
            IF Peek(Bump(s)) = 93 THEN Ok(JArray(<<>>), Bump(Bump(s)))
            ELSE ParseElements(Bump(s), <<>>)
      [] Peek(s) = 123 ->
            IF Peek(Bump(s)) = 125 THEN Ok(JObject(<<>>), Bump(Bump(s)))
            ELSE ParseMembers(Bump(s), <<>>)
      [] OTHER -> SyntaxError

\* a value, then a comma and more elements, or the closing bracket
ParseElements(s, items) ==
    AndThen(ParseValue(s), LAMBDA r :
        CASE Peek(r.rest) = 44 -> ParseElements(Bump(r.rest), Append(items, r.val))
          [] Peek(r.rest) = 93 -> Ok(JArray(Append(items, r.val)), Bump(r.rest))
          [] OTHER -> SyntaxError)

\* a key, a colon and a value, then a comma and more members, or the closing
\* brace; a key given twice keeps its last value
ParseMembers(s, o) ==
    IF Peek(s) # 34 THEN SyntaxError
    ELSE AndThen(ParseString(Bump(s)), LAMBDA key :
        IF Peek(key.rest) # 58 THEN SyntaxError
        ELSE AndThen(ParseValue(Bump(key.rest)), LAMBDA r :
            CASE Peek(r.rest) = 44 ->
                    ParseMembers(Bump(r.rest), WithKey(o, KeyName(key.val), r.val))
              [] Peek(r.rest) = 125 ->
                    Ok(JObject(WithKey(o, KeyName(key.val), r.val)), Bump(r.rest))
              [] OTHER -> SyntaxError))

\* Json::from_str: one value, and nothing but whitespace after it
Json_from_str(json_str) ==
    AndThen(ParseValue(json_str), LAMBDA r :
        IF Peek(r.rest) = 0 THEN JOk(r.val) ELSE SyntaxError)

Msg_parsing == <<106, 115, 111, 110, 32, 112, 97, 114, 115, 105, 110, 103, 32, 101,
                 114, 114, 111, 114, 58, 32>>
Msg_malformed == <<109, 97, 108, 102, 111, 114, 109, 101, 100, 32, 106, 115, 111,
                   110, 32, 111, 98, 106, 101, 99, 116, 58, 32>>
Msg_unexpected == <<117, 110, 101, 120, 112, 101, 99, 116, 101, 100, 32, 106, 115,
                    111, 110, 32, 116, 111, 107, 101, 110, 58, 32>>
Txt_SyntaxError == <<83, 121, 110, 116, 97, 120, 69, 114, 114, 111, 114>>

StrErr(msg) == [ok |-> FALSE, err |-> "String", msg |-> msg]

\* the inner match: what from_json returned, as a value or a message
ReportFromJson_OneMessage(r) ==
    IF r.ok THEN JOk(r.val) ELSE StrErr(Msg_unexpected \o Render(r.node))

ReportFromJson(r) ==
    IF r.ok THEN JOk(r.val)
    ELSE CASE r.err = "MalformedObject" -> StrErr(Msg_malformed \o Render(r.node))
           [] r.err = "UnexpectedToken" -> StrErr(Msg_unexpected \o Render(r.node))

\* the outer match: what the parser returned
ReportParsed(T, e, parsed) ==
    IF parsed.ok THEN ReportFromJson(FromJson(T, e, parsed.val))
    ELSE StrErr(Msg_parsing \o Txt_SyntaxError)

json_str_to_anything(T, e, json_str) == ReportParsed(T, e, Json_from_str(json_str))

\* texts that are not the text of a tree: cut short, cut in front, continued
Damaged(text) ==
    { SubSeq(text, 1, Len(text) - 1), SubSeq(text, 1, Len(text) \div 2),
      Tail(text), text \o <<125>>, text \o <<44>> \o text }

\* the text of a tree with whitespace around it
Spaced(text) == <<32>> \o text \o <<10>>

Texts(node) ==
    {Render(n) : n \in {node} \cup ForeignNodes(node)}
        \cup Damaged(Render(node)) \cup {Spaced(Render(node))}

\* a text is handed to json_str_to_anything for the type of the value
JsonStrToAnything ==
    /\ pc = "jsoned"
    /\ ty \notin GenericInUD \/ UDHasFromJson(env)
    /\ \E text \in Texts(json) :
          /\ area' = text
          /\ jres' = json_str_to_anything(ty, env, text)
    /\ pc' = "text"
    /\ UNCHANGED <<ty, env, val, enc, res, json, sib, threads, wide>>

(***************************************************************************)
(* Storage decode reserves.  A Workload::Many reserves room for the        *)
(* declared number of elements as soon as the count is read; a String is   *)
(* copied out of the slice once its bytes are known to be there.           *)
(***************************************************************************)
WorkloadTypes == {"WorkloadTask", "WorkloadResult", "WorkloadMatch"}

\* Vec::with_capacity(len as usize): the number of elements decode of a
\* Workload reserves room for, 0 when it returns before the reservation
WorkloadReserved(e, slice) ==
    IF try_get_u8(slice).ok /\ try_get_u8(slice).val = 2
          /\ try_get(e, try_get_u8(slice).rest, 4).ok
    THEN U32Value(try_get(e, try_get_u8(slice).rest, 4).val)
    ELSE 0

\* .to_owned(): the number of bytes decode of a String copies, 0 when it
\* returns before the copy
StringReserved(e, buf) ==
    IF try_get_str(e, buf).ok THEN Len(try_get_str(e, buf).val) ELSE 0

\* the bytes of a packet after its tag and count (Workload) or length (String)
Payload(t, buf) ==
    IF t = "String" THEN SubSeq(buf, 5, Len(buf))
    ELSE IF buf[1] = 1 THEN SubSeq(buf, 2, Len(buf))
    ELSE SubSeq(buf, 6, Len(buf))

\* u32 patterns declaring more than n: one more, 65536, 2^31 - 1, 2^32 - 1
HostileLengths(n) ==
    {U32Digits(n + 1), U32Digits(65536), <<127, 255, 255, 255>>, <<255, 255, 255, 255>>}

\* decode of a packet whose count or length declares more than follows it
DecodeHostile ==
    /\ pc = "encoded"
    /\ ty \in WorkloadTypes \cup {"String"}
    /\ \E digits \in HostileLengths(Len(Payload(ty, enc.buf))) :
          LET slice == (IF ty = "String" THEN <<>> ELSE <<2>>)
                          \o NativeWrite(env, digits) \o Payload(ty, enc.buf)
          IN  /\ area' = slice
              /\ res' = Decode(ty, env, slice)
    /\ pc' = "hostile"
    /\ UNCHANGED <<ty, env, val, enc, json, jres, sib, threads, wide>>

(***************************************************************************)
(* Buffers of the caller's choosing: shorter or longer than encode_len,    *)
(* holding bytes of the caller's before the call.                          *)
(***************************************************************************)
Filled(n) == [i \in 1..n |-> 170]

\* bytes a longer buffer has beyond encode_len
Slack == {1, 3}

\* encode into a buffer shorter than encode_len
EncodeShort ==
    /\ pc = "built"
    /\ \E n \in 0..(EncodeLen(ty, env, val) - 1) :
          enc' = Encode(ty, env, val, NewArea(Filled(n)))
    /\ pc' = "short"
    /\ UNCHANGED <<ty, env, val, area, res, json, jres, sib, threads, wide>>

\* encode into a buffer longer than encode_len
EncodeLong ==
    /\ pc = "built"
    /\ \E extra \in Slack :
          enc' = Encode(ty, env, val, NewArea(Filled(EncodeLen(ty, env, val) + extra)))
    /\ pc' = "long"
    /\ UNCHANGED <<ty, env, val, area, res, json, jres, sib, threads, wide>>

\* bytes no type uses as a tag
BadTags == {0, 255}

\* decode of the packet with one of its bytes replaced by a byte that is no tag
DecodeDamaged ==
    /\ pc = "encoded"
    /\ \E i \in 1..Len(enc.buf), bad \in BadTags :
          /\ enc.buf[i] # bad
          /\ area' = [enc.buf EXCEPT ![i] = bad]
          /\ res' = Decode(ty, env, [enc.buf EXCEPT ![i] = bad])
    /\ pc' = "damaged"
    /\ UNCHANGED <<ty, env, val, enc, json, jres, sib, threads, wide>>

(***************************************************************************)
(* Values side by side: a second value encoded into the tail encode        *)
(* returned, and decode applied to the remainder decode returned.          *)
(***************************************************************************)
\* values encoded after val: a string, a bare tag, a number
Siblings ==
    { [t |-> "String", v |-> <<104, 105>>],
      [t |-> "LookupType", v |-> "Best"],
      [t |-> "u64", v |-> U64_Wide] }

\* bytes that follow a packet in the slice handed to decode
Suffixes == { <<0>>, <<255, 1>>, <<2, 0, 0, 0, 0>> }

\* encode of val, then encode of a sibling into the returned tail, in a buffer
\* with room for both and sometimes more
EncodeSiblings ==
    /\ pc = "built"
    /\ \E s \in Siblings, extra \in {0, 2} :
          /\ sib' = s
          /\ enc' = Encode(s.t, env, s.v,
                      Encode(ty, env, val,
                        NewArea(Filled(EncodeLen(ty, env, val)
                                         + EncodeLen(s.t, env, s.v) + extra))))
    /\ pc' = "siblings"
    /\ UNCHANGED <<ty, env, val, area, res, json, jres, threads, wide>>

\* decode of the packet with other bytes after it
DecodeFollowed ==
    /\ pc = "encoded"
    /\ \E suffix \in Suffixes :
          /\ area' = enc.buf \o suffix
          /\ res' = Decode(ty, env, enc.buf \o suffix)
    /\ pc' = "followed"
    /\ UNCHANGED <<ty, env, val, enc, json, jres, sib, threads, wide>>

\* decode of the first of two packets in one buffer
DecodeFirst ==
    /\ pc = "siblings"
    /\ area' = enc.buf
    /\ res' = Decode(ty, env, enc.buf)
    /\ pc' = "first"
    /\ UNCHANGED <<ty, env, val, enc, json, jres, sib, threads, wide>>

\* decode of the remainder the first decode returned
DecodeSecond ==
    /\ pc = "first"
    /\ res.ok
    /\ area' = res.rest
    /\ res' = Decode(sib.t, env, res.rest)
    /\ pc' = "second"
    /\ UNCHANGED <<ty, env, val, enc, json, jres, sib, threads, wide>>

Next ==
    \/ EncodeValue
    \/ DecodeValue
    \/ DecodeTruncated
    \/ DecodeRetagged
    \/ DecodeOneByte
    \/ DecodeCorrupted
    \/ DecodeOnPeer
    \/ ToJsonValue
    \/ FromJsonValue
    \/ FromJsonForeign
    \/ JsonStrToAnything
    \/ DecodeHostile
    \/ EncodeShort
    \/ EncodeLong
    \/ EncodeSiblings
    \/ DecodeFollowed
    \/ DecodeFirst
    \/ DecodeSecond
    \/ FromJsonMiskinded
    \/ DecodeDamaged

Spec == Init /\ [][Next]_vars

(***************************************************************************)
(* Several threads, each making one call on a value, a buffer and a tree   *)
(* of its own.  A call of encode advances one put_adv! at a time, so that  *)
(* the writes of two calls interleave; the other calls read their          *)
(* argument where the thread holds it.                                     *)
(***************************************************************************)
ThreadIds == {1, 2}

Calls == {"encode_len", "encode", "decode", "to_json", "from_json"}

LittleString == [host |-> "LE", ud |-> "String"]

JobNames == {"req_01", "rep_05", "hi", "assign"}

Job(name) ==
    CASE name = "req_01" -> [ty |-> "Trans", env |-> LittleString, val |-> req_01]
      [] name = "rep_05" -> [ty |-> "Rep", env |-> LittleString, val |-> rep_05]
      [] name = "hi" ->
            [ty |-> "String", env |-> [host |-> "BE", ud |-> "String"], val |-> <<104, 105>>]
      [] name = "assign" ->
            [ty |-> "ClusterAssign", env |-> LittleString,
             val |-> [cond |-> [tag |-> "BestSimLessThan", sim |-> F64_Half],
                      choice |-> [tag |-> "ClientChoice", cluster_id |-> U64_Wide]]]

\* a call that returns no Result: the value it returned
Returned(x) == [returned |-> x]

\* what a thread holds when it makes the call: encode is given a buffer of
\* encode_len bytes, decode the packet, from_json the tree
ThreadStart(job, call) ==
    [ty |-> job.ty, env |-> job.env, val |-> job.val, call |-> call,
     area |-> IF call = "encode"
              THEN NewArea(Filled(EncodeLen(job.ty, job.env, job.val)))
              ELSE NewArea(Bytes(job.ty, job.env, job.val)),
     tree |-> ToJson(job.ty, job.env, job.val),
     out |-> NoResult,
     done |-> FALSE]

ThreadsInit ==
    /\ ty = "String"
    /\ env = LittleString
    /\ val = <<>>
    /\ pc = "threads"
    /\ enc = NewArea(<<>>)
    /\ area = <<>>
    /\ res = NoResult
    /\ json = JNull
    /\ jres = NoResult
    /\ sib = NoSibling
    /\ wide = NoWide
    /\ \E first \in JobNames, second \in JobNames, c1 \in Calls, c2 \in Calls :
          threads = <<ThreadStart(Job(first), c1), ThreadStart(Job(second), c2)>>

\* the offset at which the put_adv! that starts at offset b ends: the least
\* buffer length with which encode gets past b
RECURSIVE ChunkEnd(_, _, _)
ChunkEnd(th, b, n) ==
    IF Encode(th.ty, th.env, th.val, NewArea(Filled(n))).pos > b THEN n
    ELSE ChunkEnd(th, b, n + 1)

\* the buffer every thread's encode was given writes into another thread's (a
\* faulty variant)
Holder_Shared(t) == 1

\* the thread whose buffer and tree the call of thread t works on: its own
Holder(t) == t

\* self.encode_len()
ThreadEncodeLen(t) ==
    /\ threads[t].call = "encode_len"
    /\ ~threads[t].done
    /\ threads' = [threads EXCEPT
          ![t].out = Returned(EncodeLen(threads[t].ty, threads[t].env, threads[t].val)),
          ![t].done = TRUE]

\* the next put_adv! of self.encode(area)
ThreadEncodeWrite(t) ==
    /\ threads[t].call = "encode"
    /\ ~threads[t].done
    /\ threads[Holder(t)].area.pos
          < EncodeLen(threads[t].ty, threads[t].env, threads[t].val)
    /\ LET b == threads[Holder(t)].area.pos
           packet == Bytes(threads[t].ty, threads[t].env, threads[t].val)
           written == put_adv(threads[Holder(t)].area,
                              SubSeq(packet, b + 1, ChunkEnd(threads[t], b, b + 1)))
       IN  threads' = [threads EXCEPT
              ![Holder(t)].area = written,
              ![t].done = written.pos = Len(packet) \/ ~written.ok]

\* T::decode(area)
ThreadDecode(t) ==
    /\ threads[t].call = "decode"
    /\ ~threads[t].done
    /\ threads' = [threads EXCEPT
          ![t].out = Decode(threads[t].ty, threads[t].env, threads[Holder(t)].area.buf),
          ![t].done = TRUE]

\* self.to_json()
ThreadToJson(t) ==
    /\ threads[t].call = "to_json"
    /\ ~threads[t].done
    /\ threads' = [threads EXCEPT
          ![t].out = Returned(ToJson(threads[t].ty, threads[t].env, threads[t].val)),
          ![t].done = TRUE]

\* T::from_json(&json)
ThreadFromJson(t) ==
    /\ threads[t].call = "from_json"
    /\ ~threads[t].done
    /\ threads' = [threads EXCEPT
          ![t].out = FromJson(threads[t].ty, threads[t].env, threads[Holder(t)].tree),
          ![t].done = TRUE]

ThreadStep(t) ==
    /\ \/ ThreadEncodeLen(t)
       \/ ThreadEncodeWrite(t)
       \/ ThreadDecode(t)
       \/ ThreadToJson(t)
       \/ ThreadFromJson(t)
    /\ UNCHANGED <<ty, env, val, pc, enc, area, res, json, jres, sib, wide>>

ThreadsNext == \E t \in ThreadIds : ThreadStep(t)

SpecThreads == ThreadsInit /\ [][ThreadsNext]_vars

(***************************************************************************)
(* Lengths past the range of the prefix.  A string or sequence too long to *)
(* write out is known here by its length alone, a usize of eight base-256  *)
(* digits, most significant first; the steps are the casts and sums the    *)
(* code applies to that length.                                            *)
(***************************************************************************)
LengthDigits == {0, 1, 255}

\* lengths on both sides of 2^32, 2^32 - 1 and 2^32 among them
Lengths ==
    {<<0, 0, 0, a, b, c, d, e>> :
        a \in LengthDigits, b \in LengthDigits, c \in LengthDigits,
        d \in LengthDigits, e \in LengthDigits}

\* `as u32` keeping the largest u32 for a length past it (a faulty variant).
AsU32_Saturating(usize) ==
    IF \E i \in 1..4 : usize[i] # 0 THEN <<255, 255, 255, 255>> ELSE SubSeq(usize, 5, 8)

\* `len as u32`: the low 32 bits
AsU32(usize) == SubSeq(usize, 5, 8)

\* `len as usize`: the u32 with zeros above it
AsUsize(u32) == <<0, 0, 0, 0>> \o u32

\* usize + k for a small k, wrapping at 2^64
RECURSIVE AddAt(_, _, _)
AddAt(digits, i, k) ==
    IF i = 0 \/ k = 0 THEN digits
    ELSE AddAt([digits EXCEPT ![i] = (digits[i] + k) % 256], i - 1, (digits[i] + k) \div 256)

UsizeAdd(usize, k) == AddAt(usize, 8, k)

\* the bytes ahead of the payload: the length of a String; the tag and the count
\* of a Workload::Many, whose elements here take one byte each
HeaderLen(kind) == IF kind = "String" THEN 4 ELSE 1 + 4

LengthsInit ==
    /\ ty = "String"
    /\ env = LittleString
    /\ val = <<>>
    /\ pc = "lengths"
    /\ enc = NewArea(<<>>)
    /\ area = <<>>
    /\ res = NoResult
    /\ json = JNull
    /\ jres = NoResult
    /\ sib = NoSibling
    /\ threads = <<>>
    /\ \E kind \in {"String", "Many"}, len \in Lengths :
          wide = [stage |-> "built", kind |-> kind, len |-> len]

\* encode_len: size_of::<u32>() + len, with the tag for a Workload
WideEncodeLen ==
    /\ wide.stage = "built"
    /\ wide' = [stage |-> "sized", kind |-> wide.kind, len |-> wide.len,
                encode_len |-> UsizeAdd(wide.len, HeaderLen(wide.kind))]

\* encode: the length cast to u32 is written, then every byte or element
WideEncode ==
    /\ wide.stage = "sized"
    /\ wide' = [stage |-> "encoded", kind |-> wide.kind, len |-> wide.len,
                encode_len |-> wide.encode_len,
                prefix |-> AsU32(wide.len),
                copied |-> wide.len]

\* decode: the prefix cast back to usize is the length it goes by
WideDecode ==
    /\ wide.stage = "encoded"
    /\ wide' = [stage |-> "decoded", kind |-> wide.kind, len |-> wide.len,
                encode_len |-> wide.encode_len,
                prefix |-> wide.prefix,
                copied |-> wide.copied,
                declared |-> AsUsize(wide.prefix)]

LengthsNext ==
    /\ \/ WideEncodeLen
       \/ WideEncode
       \/ WideDecode
    /\ UNCHANGED <<ty, env, val, pc, enc, area, res, json, jres, sib, threads>>

SpecLengths == LengthsInit /\ [][LengthsNext]_vars

(***************************************************************************)
(* C1.  Binary round trip: a value encoded into a buffer of exactly        *)
(* encode_len bytes and decoded again comes back equal, nothing left over. *)
(***************************************************************************)
C1_BinaryRoundTrip ==
    pc = "decoded" => res.ok /\ res.val = val /\ res.rest = <<>>

C1_Witness ==
    /\ pc = "decoded"
    /\ ty = "Rep"
    /\ val.tag = "Result"
    /\ val.workload.tag = "Many"
    /\ Len(val.workload.values) = MaxMany
    /\ res.ok

(***************************************************************************)
(* C2.  Size/encode consistency: encode into a buffer of encode_len(v)     *)
(* bytes runs to its end and returns the empty tail, so it wrote exactly   *)
(* encode_len(v) bytes.                                                    *)
(***************************************************************************)
C2_SizeMatchesEncode ==
    pc = "encoded" =>
        /\ enc.ok
        /\ enc.pos = EncodeLen(ty, env, val)
        /\ Len(enc.buf) - enc.pos = 0

C2_Witness ==
    /\ pc = "encoded"
    /\ ty = "PostAction"
    /\ val.tag = "InsertNew"
    /\ env.ud = "String"
    /\ enc.pos = 1 + 9 + 9 + 9 + 4 + 3

(***************************************************************************)
(* C3.  Text round trip: from_json(to_json(v)) succeeds and returns v      *)
(* (stated for UD = String, the payload type the text codec can decode).   *)
(***************************************************************************)
C3_TextRoundTrip ==
    pc = "unjsoned" /\ env.ud = "String" => jres.ok /\ jres.val = val

(***************************************************************************)
(* C4.  Truncation: decode of any strict prefix of an encoded value fails  *)
(* with UnexpectedEOF.                                                     *)
(***************************************************************************)
C4_TruncationIsEOF ==
    pc = "truncated" => ~res.ok /\ res.err = "UnexpectedEOF"

\* a prefix that ends inside a two-byte character of a task's text
C4_Witness ==
    /\ pc = "truncated"
    /\ ty = "LookupTask"
    /\ val.text = <<195, 169>>
    /\ Len(area) = 5
    /\ res.err = "UnexpectedEOF"

(***************************************************************************)
(* The tag table of the wire format as the specification gives it (its     *)
(* section 6): the tag of every variant, and so the tags assigned in each  *)
(* tagged type.                                                            *)
(***************************************************************************)
TaggedTypes ==
    {"Trans", "Req", "WorkloadTask", "LookupType", "PostAction", "InsertCond",
     "AssignCond", "ClusterChoice", "Rep", "WorkloadResult", "LookupResult",
     "WorkloadMatch"}

WireTag(t, variant) ==
    CASE t = "Trans" -> (CASE variant = "Async" -> 1 [] variant = "Sync" -> 2)
      [] t = "Req" ->
            (CASE variant = "Init" -> 1 [] variant = "Lookup" -> 2 [] variant = "Terminate" -> 3)
      [] t \in {"WorkloadTask", "WorkloadResult", "WorkloadMatch"} ->
            (CASE variant = "Single" -> 1 [] variant = "Many" -> 2)
      [] t = "LookupType" ->
            (CASE variant = "All" -> 1 [] variant = "Best" -> 2 [] variant = "BestOrMine" -> 3)
      [] t = "PostAction" -> (CASE variant = "None" -> 1 [] variant = "InsertNew" -> 2)
      [] t \in {"InsertCond", "AssignCond"} ->
            (CASE variant = "Always" -> 1 [] variant = "BestSimLessThan" -> 2)
      [] t = "ClusterChoice" ->
            (CASE variant = "ServerChoice" -> 1 [] variant = "ClientChoice" -> 2)
      [] t = "Rep" ->
            (CASE variant = "InitAck" -> 1 [] variant = "Result" -> 2
               [] variant = "TerminateAck" -> 3 [] variant = "Unexpected" -> 4
               [] variant = "TooBusy" -> 5 [] variant = "WantCrash" -> 6)
      [] t = "LookupResult" ->
            (CASE variant = "EmptySet" -> 1 [] variant = "Best" -> 2
               [] variant = "Neighbours" -> 3 [] variant = "Error" -> 4)

WireTags(t) ==
    CASE t \in {"Req", "LookupType"} -> 1..3
      [] t = "Rep" -> 1..6
      [] t = "LookupResult" -> 1..4
      [] OTHER -> 1..2

(***************************************************************************)
(* C5.  Unknown tag: with the leading tag byte of a valid encoding of a    *)
(* tagged type replaced by a byte assigned to no variant of the type,      *)
(* decode fails with InvalidTag carrying exactly the byte that was read.   *)
(***************************************************************************)
C5_UnknownTag ==
    pc = "retagged" /\ ty \in TaggedTypes /\ area[1] \notin WireTags(ty)
        => ~res.ok /\ res.err = "InvalidTag" /\ res.tag = area[1]

C5_Witness ==
    /\ pc = "retagged"
    /\ ty = "LookupResult"
    /\ val.tag = "Neighbours"
    /\ area[1] = 255
    /\ res.err = "InvalidTag"
    /\ res.tag = 255

(***************************************************************************)
(* C6.  Generic payload independence: the binary round trip and the text   *)
(* round trip hold for every message (Trans, Rep) with UD = String and     *)
(* with UD = f64.                                                          *)
(***************************************************************************)
C6_PayloadIndependence ==
    ty \in {"Trans", "Rep"} =>
        /\ pc = "decoded" => res.ok /\ res.val = val /\ res.rest = <<>>
        /\ pc = "unjsoned" /\ env.ud = "f64" => jres.ok /\ jres.val = val

(***************************************************************************)
(* C7.  Fixed byte order: the bytes of a value are those a little-endian   *)
(* host writes, whatever the host, and a host of the other byte order      *)
(* decodes them to the same value.                                         *)
(***************************************************************************)
C7_FixedByteOrder ==
    /\ pc = "encoded" => enc.buf = Bytes(ty, [env EXCEPT !.host = "LE"], val)
    /\ pc = "peer" => res.ok /\ res.val = val /\ res.rest = <<>>

(***************************************************************************)
(* C8.  Request-side wire layout: every tagged type starts with its one    *)
(* tag byte from the table, followed by the encodings of the variant's     *)
(* fields; LookupTask is String, LookupType, PostAction and ClusterAssign  *)
(* is AssignCond, ClusterChoice, neither with a tag; and decode of a       *)
(* one-byte slice reports InvalidTag exactly for the bytes outside the     *)
(* table.                                                                  *)
(***************************************************************************)
RequestTypes ==
    {"Trans", "Req", "WorkloadTask", "LookupTask", "LookupType", "PostAction",
     "InsertCond", "ClusterAssign", "AssignCond", "ClusterChoice"}

RequestLayout(t, e, v, b) ==
    CASE t = "Trans" -> b = <<WireTag(t, v.tag)>> \o Bytes("Req", e, v.req)
      [] t = "Req" ->
            IF v.tag = "Lookup"
            THEN b = <<WireTag(t, v.tag)>> \o Bytes("WorkloadTask", e, v.workload)
            ELSE b = <<WireTag(t, v.tag)>>
      [] t = "WorkloadTask" ->
            IF v.tag = "Single"
            THEN b = <<WireTag(t, v.tag)>> \o Bytes("LookupTask", e, v.value)
            ELSE b[1] = WireTag(t, v.tag)
      [] t = "LookupTask" ->
            b = Bytes("String", e, v.text) \o Bytes("LookupType", e, v.result)
                    \o Bytes("PostAction", e, v.post_action)
      [] t = "LookupType" -> b = <<WireTag(t, v)>>
      [] t = "PostAction" ->
            IF v.tag = "None" THEN b = <<WireTag(t, v.tag)>>
            ELSE b = <<WireTag(t, v.tag)>> \o Bytes("InsertCond", e, v.cond)
                        \o Bytes("ClusterAssign", e, v.assign)
                        \o Bytes(e.ud, e, v.user_data)
      [] t \in {"InsertCond", "AssignCond"} ->
            IF v.tag = "Always" THEN b = <<WireTag(t, v.tag)>>
            ELSE b = <<WireTag(t, v.tag)>> \o Bytes("f64", e, v.sim)
      [] t = "ClusterAssign" ->
            b = Bytes("AssignCond", e, v.cond) \o Bytes("ClusterChoice", e, v.choice)
      [] t = "ClusterChoice" ->
            IF v.tag = "ServerChoice" THEN b = <<WireTag(t, v.tag)>>
            ELSE b = <<WireTag(t, v.tag)>> \o Bytes("u64", e, v.cluster_id)

\* decode of the slice <<b>> takes b for a tag of the type exactly when the table
\* assigns it
AcceptsExactly(t) ==
    /\ area[1] \notin WireTags(t) => ~res.ok /\ res.err = "InvalidTag" /\ res.tag = area[1]
    /\ area[1] \in WireTags(t) => res.ok \/ res.err = "UnexpectedEOF"

C8_RequestLayout ==
    /\ pc = "encoded" /\ ty \in RequestTypes => RequestLayout(ty, env, val, enc.buf)
    /\ pc = "probed" /\ ty \in RequestTypes \cap TaggedTypes => AcceptsExactly(ty)

C8_Witness ==
    /\ pc = "encoded"
    /\ ty = "LookupTask"
    /\ val.post_action.tag = "InsertNew"
    /\ val.post_action.assign.choice.tag = "ClientChoice"
    /\ enc.ok

(***************************************************************************)
(* C9.  Reply-side wire layout: Rep and LookupResult start with their tag  *)
(* byte from the table followed by the variant's payload; Match is the u64 *)
(* cluster_id, the f64 similarity, then UD, with no tag; decode of a       *)
(* one-byte slice reports InvalidTag exactly for the bytes outside the     *)
(* table.                                                                  *)
(***************************************************************************)
ReplyTypes == {"Rep", "LookupResult", "Match"}

ReplyLayout(t, e, v, b) ==
    CASE t = "Rep" ->
            (CASE v.tag = "Result" ->
                    b = <<WireTag(t, v.tag)>> \o Bytes("WorkloadResult", e, v.workload)
               [] v.tag = "Unexpected" -> b = <<WireTag(t, v.tag)>> \o Bytes("Req", e, v.req)
               [] OTHER -> b = <<WireTag(t, v.tag)>>)
      [] t = "LookupResult" ->
            (CASE v.tag = "EmptySet" -> b = <<WireTag(t, v.tag)>>
               [] v.tag = "Best" -> b = <<WireTag(t, v.tag)>> \o Bytes("Match", e, v.m)
               [] v.tag = "Neighbours" ->
                    b = <<WireTag(t, v.tag)>> \o Bytes("WorkloadMatch", e, v.workload)
               [] v.tag = "Error" -> b = <<WireTag(t, v.tag)>> \o Bytes("String", e, v.message))
      [] t = "Match" ->
            b = Bytes("u64", e, v.cluster_id) \o Bytes("f64", e, v.similarity)
                    \o Bytes(e.ud, e, v.user_data)

C9_ReplyLayout ==
    /\ pc = "encoded" /\ ty \in ReplyTypes => ReplyLayout(ty, env, val, enc.buf)
    /\ pc = "probed" /\ ty \in ReplyTypes \cap TaggedTypes => AcceptsExactly(ty)

C9_Witness ==
    /\ pc = "encoded"
    /\ ty = "Rep"
    /\ val.tag = "Result"
    /\ val.workload.tag = "Single"
    /\ val.workload.value.tag = "Best"
    /\ enc.ok

(***************************************************************************)
(* C10.  String layout: four bytes holding the string's byte count (as the *)
(* host reads a u32), then exactly its bytes; and a string whose declared  *)
(* bytes are all present but are not valid UTF-8 decodes to the Utf8       *)
(* error.                                                                  *)
(***************************************************************************)
C10_StringLayout ==
    /\ pc = "encoded" /\ ty = "String" =>
            /\ Len(enc.buf) = 4 + Len(val)
            /\ U32Value(NativeRead(env, SubSeq(enc.buf, 1, 4))) = Len(val)
            /\ SubSeq(enc.buf, 5, Len(enc.buf)) = val
    /\ pc = "corrupted" /\ ~Utf8Valid(SubSeq(area, 5, Len(area))) =>
            ~res.ok /\ res.err = "Utf8"

\* "e-acute" (one character, two bytes) with its second byte replaced
C10_Witness ==
    /\ pc = "corrupted"
    /\ val = <<195, 169>>
    /\ area[5] = 195
    /\ area[6] = 65
    /\ res.err = "Utf8"

(***************************************************************************)
(* C11.  Sequence layout and order: Workload::Many of n elements is the    *)
(* tag 2, four bytes holding the count n (as the host reads a u32), then   *)
(* the n element encodings in submission order; decode returns Many with   *)
(* the same n elements, element i equal to element i of the original.      *)
(***************************************************************************)
ElementType(t) ==
    CASE t = "WorkloadTask" -> "LookupTask"
      [] t = "WorkloadResult" -> "LookupResult"
      [] t = "WorkloadMatch" -> "Match"

\* the encodings of the elements, one after the other
RECURSIVE ElementBytes(_, _, _)
ElementBytes(T, e, values) ==
    IF Len(values) = 0 THEN <<>>
    ELSE Bytes(T, e, Head(values)) \o ElementBytes(T, e, Tail(values))

C11_SequenceLayout ==
    /\ pc = "encoded" /\ ty \in WorkloadTypes /\ val.tag = "Many" =>
            /\ enc.buf[1] = 2
            /\ U32Value(NativeRead(env, SubSeq(enc.buf, 2, 5))) = Len(val.values)
            /\ SubSeq(enc.buf, 6, Len(enc.buf)) = ElementBytes(ElementType(ty), env, val.values)
    /\ pc = "decoded" /\ ty \in WorkloadTypes /\ val.tag = "Many" =>
            /\ res.ok
            /\ res.val.tag = "Many"
            /\ Len(res.val.values) = Len(val.values)
            /\ \A i \in 1..Len(val.values) : res.val.values[i] = val.values[i]

C11_Witness ==
    /\ pc = "decoded"
    /\ ty = "WorkloadTask"
    /\ val.tag = "Many"
    /\ Len(val.values) = 2
    /\ val.values[1] # val.values[2]
    /\ res.ok
    /\ res.val.values[1] = val.values[1]

(***************************************************************************)
(* The length of a value counted from its parts: one byte per tag, eight   *)
(* bytes per u64 or f64, four plus the byte length per string, and         *)
(* countBytes for the count of every Workload::Many.                       *)
(***************************************************************************)
RECURSIVE WireLen(_, _, _, _)
RECURSIVE SumWireLen(_, _, _, _)
SumWireLen(T, e, values, countBytes) ==
    IF Len(values) = 0 THEN 0
    ELSE WireLen(T, e, Head(values), countBytes)
            + SumWireLen(T, e, Tail(values), countBytes)

WireLen(t, e, v, countBytes) ==
    CASE t = "String" -> 4 + Len(v)
      [] t \in {"u64", "f64"} -> 8
      [] t = "LookupType" -> 1
      [] t \in {"InsertCond", "AssignCond"} -> 1 + (IF v.tag = "Always" THEN 0 ELSE 8)
      [] t = "ClusterChoice" -> 1 + (IF v.tag = "ServerChoice" THEN 0 ELSE 8)
      [] t = "ClusterAssign" ->
            WireLen("AssignCond", e, v.cond, countBytes)
                + WireLen("ClusterChoice", e, v.choice, countBytes)
      [] t = "PostAction" ->
            1 + (IF v.tag = "None" THEN 0
                 ELSE WireLen("InsertCond", e, v.cond, countBytes)
                        + WireLen("ClusterAssign", e, v.assign, countBytes)
                        + WireLen(e.ud, e, v.user_data, countBytes))
      [] t = "LookupTask" ->
            WireLen("String", e, v.text, countBytes) + 1
                + WireLen("PostAction", e, v.post_action, countBytes)
      [] t \in {"WorkloadTask", "WorkloadResult", "WorkloadMatch"} ->
            1 + (IF v.tag = "Single" THEN WireLen(ElementType(t), e, v.value, countBytes)
                 ELSE countBytes + SumWireLen(ElementType(t), e, v.values, countBytes))
      [] t = "Req" ->
            1 + (IF v.tag = "Lookup" THEN WireLen("WorkloadTask", e, v.workload, countBytes)
                 ELSE 0)
      [] t = "Trans" -> 1 + WireLen("Req", e, v.req, countBytes)
      [] t = "Match" -> 8 + 8 + WireLen(e.ud, e, v.user_data, countBytes)
      [] t = "LookupResult" ->
            1 + (CASE v.tag = "EmptySet" -> 0
                   [] v.tag = "Best" -> WireLen("Match", e, v.m, countBytes)
                   [] v.tag = "Neighbours" ->
                        WireLen("WorkloadMatch", e, v.workload, countBytes)
                   [] v.tag = "Error" -> WireLen("String", e, v.message, countBytes))
      [] t = "Rep" ->
            1 + (CASE v.tag = "Result" -> WireLen("WorkloadResult", e, v.workload, countBytes)
                   [] v.tag = "Unexpected" -> WireLen("Req", e, v.req, countBytes)
                   [] OTHER -> 0)

(***************************************************************************)
(* C12 as stated.  The value of rep_05 has encode_len 32, and the encoded  *)
(* length of every value is the sum of one byte per tag, 8 bytes per       *)
(* u64/f64 and 4 plus the byte length per string.                          *)
(***************************************************************************)
C12_LengthFromTagsNumbersStrings ==
    pc = "encoded" /\ ty \in {"Trans", "Req", "Rep"} =>
        /\ ty = "Rep" /\ val = rep_05 => EncodeLen(ty, env, val) = 32
        /\ EncodeLen(ty, env, val) = WireLen(ty, env, val, 0)

(***************************************************************************)
(* C12 amended.  The value of rep_05 has encode_len 32 = 1+1+1+8+8+4+9,    *)
(* and the encoded length of every value is the sum of one byte per tag, 8 *)
(* bytes per u64/f64, 4 plus the byte length per string, and 4 bytes for   *)
(* the count of every Workload::Many.                                      *)
(***************************************************************************)
C12_EncodedLength ==
    pc = "encoded" =>
        /\ ty = "Rep" /\ val = rep_05 =>
                /\ EncodeLen(ty, env, val) = 1 + 1 + 1 + 8 + 8 + 4 + 9
                /\ EncodeLen(ty, env, val) = 32
                /\ enc.pos = 32
        /\ EncodeLen(ty, env, val) = WireLen(ty, env, val, 4)

C12_Witness ==
    /\ pc = "encoded"
    /\ ty = "Rep"
    /\ val = rep_05
    /\ Len(enc.buf) = 32
    /\ enc.pos = 32

(***************************************************************************)
(* C13.  Example 1: to_json of the value of req_01,                        *)
(* Trans::Sync(Req::Lookup(Workload::Single(LookupTask{text: "hello        *)
(* world", result: All, post_action: None}))), is the object               *)
(* {"sync": {"lookup": {"text": "hello world", "result": "all",            *)
(* "post_action": "none"}}} with no other keys, and from_json of that      *)
(* object returns the original value.                                      *)
(***************************************************************************)
C13_Example1Text ==
    /\ pc \in {"jsoned", "unjsoned"} /\ ty = "Trans" /\ val = req_01 =>
            /\ json.k = "Object"
            /\ DOMAIN json.o = {"sync"}
            /\ json.o["sync"].k = "Object"
            /\ DOMAIN json.o["sync"].o = {"lookup"}
            /\ json.o["sync"].o["lookup"].k = "Object"
            /\ DOMAIN json.o["sync"].o["lookup"].o = {"text", "result", "post_action"}
            /\ json.o["sync"].o["lookup"].o["text"] =
                    [k |-> "String", s |-> <<104, 101, 108, 108, 111, 32, 119, 111, 114, 108, 100>>]
            /\ json.o["sync"].o["lookup"].o["result"] = [k |-> "String", s |-> <<97, 108, 108>>]
            /\ json.o["sync"].o["lookup"].o["post_action"] =
                    [k |-> "String", s |-> <<110, 111, 110, 101>>]
    /\ pc = "unjsoned" /\ ty = "Trans" /\ val = req_01 => jres.ok /\ jres.val = val

C13_Witness ==
    /\ pc = "unjsoned"
    /\ ty = "Trans"
    /\ val = req_01
    /\ DOMAIN json.o = {"sync"}
    /\ jres.ok

(***************************************************************************)
(* C14.  Example 3: Workload::Many of the empty sequence round-trips in    *)
(* both codecs to Many of the empty sequence, not to Single and not to an  *)
(* error; its binary form is the tag followed by a zero count, and its     *)
(* text form is the empty array.  (from_json exists for UD = String.)      *)
(***************************************************************************)
IsEmptyMany == ty \in WorkloadTypes /\ val.tag = "Many" /\ Len(val.values) = 0

C14_EmptyMany ==
    /\ pc = "encoded" /\ IsEmptyMany => enc.ok /\ enc.buf = <<2, 0, 0, 0, 0>>
    /\ pc = "decoded" /\ IsEmptyMany =>
            /\ res.ok
            /\ res.val.tag = "Many"
            /\ res.val.values = <<>>
            /\ res.rest = <<>>
    /\ pc \in {"jsoned", "unjsoned"} /\ IsEmptyMany => json = [k |-> "Array", items |-> <<>>]
    /\ pc = "unjsoned" /\ IsEmptyMany /\ env.ud = "String" =>
            /\ jres.ok
            /\ jres.val.tag = "Many"
            /\ jres.val.values = <<>>

C14_Witness ==
    /\ pc = "unjsoned"
    /\ ty = "WorkloadResult"
    /\ val.tag = "Many"
    /\ Len(val.values) = 0
    /\ json.k = "Array"
    /\ jres.ok
    /\ jres.val.tag = "Many"

(***************************************************************************)
(* C15.  Trans text form: to_json of a Trans is an object with exactly one *)
(* of the keys "async" / "sync"; from_json of an object holding both keys, *)
(* or neither, fails with MalformedObject; from_json of a node that is no  *)
(* object fails with UnexpectedToken.                                      *)
(***************************************************************************)
C15_TransTextForm ==
    /\ pc = "jsoned" /\ ty = "Trans" =>
            /\ json.k = "Object"
            /\ Cardinality(DOMAIN json.o \cap {"async", "sync"}) = 1
    /\ pc = "foreign" /\ ty = "Trans" /\ json.k = "Object" =>
            (Cardinality(DOMAIN json.o \cap {"async", "sync"}) # 1
                => ~jres.ok /\ jres.err = "MalformedObject")
    /\ pc = "foreign" /\ ty = "Trans" /\ json.k # "Object" =>
            ~jres.ok /\ jres.err = "UnexpectedToken"

\* both keys present
C15_Witness ==
    /\ pc = "foreign"
    /\ ty = "Trans"
    /\ json.k = "Object"
    /\ {"async", "sync"} \subseteq DOMAIN json.o
    /\ jres.err = "MalformedObject"

(***************************************************************************)
(* C16.  Workload text form is unambiguous: Single(v) encodes as the bare  *)
(* encoding of v and Many(items) as an array of the items' encodings;      *)
(* decode returns Many for an array node and Single for any other; no      *)
(* element type used inside a Workload (LookupTask, LookupResult, Match)   *)
(* encodes to an array, so decode never takes one variant for the other.   *)
(***************************************************************************)
C16_WorkloadTextForm ==
    /\ pc = "jsoned" /\ ty \in WorkloadTypes /\ val.tag = "Single" =>
            json = ToJson(ElementType(ty), env, val.value)
    /\ pc = "jsoned" /\ ty \in WorkloadTypes /\ val.tag = "Many" =>
            /\ json.k = "Array"
            /\ Len(json.items) = Len(val.values)
            /\ \A i \in 1..Len(val.values) :
                    json.items[i] = ToJson(ElementType(ty), env, val.values[i])
    /\ pc = "jsoned" /\ ty \in {"LookupTask", "LookupResult", "Match"} => json.k # "Array"
    /\ pc \in {"unjsoned", "foreign"} /\ ty \in WorkloadTypes /\ jres.ok =>
            /\ json.k = "Array" => jres.val.tag = "Many"
            /\ json.k # "Array" => jres.val.tag = "Single"
    /\ pc = "unjsoned" /\ ty \in WorkloadTypes /\ jres.ok => jres.val.tag = val.tag

\* an array of one null read as Many of one EmptySet
C16_Witness ==
    /\ pc = "foreign"
    /\ ty = "WorkloadResult"
    /\ json.k = "Array"
    /\ Len(json.items) = 1
    /\ jres.ok
    /\ jres.val.tag = "Many"
    /\ Len(jres.val.values) = 1

(***************************************************************************)
(* The vocabulary of the text encoder.  Every type of the model is taken   *)
(* through to_json on its own, so the keys and tokens at the root of the   *)
(* trees are all the keys and tokens there are.                            *)
(***************************************************************************)
RootKeys(node) == IF node.k = "Object" THEN DOMAIN node.o ELSE {}

\* the types whose string nodes name a variant (a String encodes as its own text)
VariantTypes == JsonTypes \ {"String"}

StringUD == [host |-> "LE", ud |-> "String"]

ProducedKeys ==
    UNION {RootKeys(ToJson(t[1], StringUD, t[2])) :
                t \in UNION {{<<n, v>> : v \in Values(n, StringUD)} : n \in VariantTypes}}

ProducedTokens ==
    {ToJson(t[1], StringUD, t[2]).s :
        t \in {u \in UNION {{<<n, v>> : v \in Values(n, StringUD)} : n \in VariantTypes} :
                    ToJson(u[1], StringUD, u[2]).k = "String"}}

\* a variant without fields
IsZeroField(t, v) ==
    \/ t = "LookupType"
    \/ /\ t \in {"Req", "PostAction", "InsertCond", "AssignCond", "ClusterChoice", "Rep",
                 "LookupResult"}
       /\ DOMAIN v = {"tag"}

StatedKeys ==
    {"text", "result", "post_action", "cond", "assign", "choice", "user_data",
     "cluster_id", "similarity", "lookup", "async", "sync", "best", "neighbours", "error"}

StatedTokens ==
    \* init, terminate, all, best, best_or_mine, always, server_choice,
    \* client_choice, init_ack, terminate_ack, too_busy, want_crash, none
    {
      <<105, 110, 105, 116>>,
      <<116, 101, 114, 109, 105, 110, 97, 116, 101>>,
      <<97, 108, 108>>,
      <<98, 101, 115, 116>>,
      <<98, 101, 115, 116, 95, 111, 114, 95, 109, 105, 110, 101>>,
      <<97, 108, 119, 97, 121, 115>>,
      <<115, 101, 114, 118, 101, 114, 95, 99, 104, 111, 105, 99, 101>>,
      <<99, 108, 105, 101, 110, 116, 95, 99, 104, 111, 105, 99, 101>>,
      <<105, 110, 105, 116, 95, 97, 99, 107>>,
      <<116, 101, 114, 109, 105, 110, 97, 116, 101, 95, 97, 99, 107>>,
      <<116, 111, 111, 95, 98, 117, 115, 121>>,
      <<119, 97, 110, 116, 95, 99, 114, 97, 115, 104>>,
      <<110, 111, 110, 101>> }

\* the keys naming the variants BestSimLessThan, ClientChoice and Unexpected
PayloadVariantKeys == {"best_sim_less_than", "client_choice", "unexpected"}

EncodedKeys == StatedKeys \cup PayloadVariantKeys

\* client_choice is a key, never a token
EncodedTokens == StatedTokens \ {<<99, 108, 105, 101, 110, 116, 95, 99, 104, 111, 105, 99, 101>>}

Vocabulary(keys, tokens) ==
    /\ pc = "jsoned" =>
            /\ RootKeys(json) \subseteq keys
            /\ ty \in VariantTypes /\ json.k = "String" => json.s \in tokens
            /\ IsZeroField(ty, val) =>
                    IF ty = "LookupResult" THEN json = [k |-> "Null"]
                    ELSE json.k = "String" /\ json.s \in tokens
    /\ pc = "jsoned" /\ ty = "LookupType" /\ val = "All" /\ env = StringUD =>
            /\ ProducedKeys = keys
            /\ ProducedTokens = tokens

(***************************************************************************)
(* C17 as stated.  The object keys the text encoder produces are exactly   *)
(* text, result, post_action, cond, assign, choice, user_data, cluster_id, *)
(* similarity, lookup, async, sync, best, neighbours, error; the string    *)
(* tokens naming variants are exactly init, terminate, all, best,          *)
(* best_or_mine, always, server_choice, client_choice, init_ack,           *)
(* terminate_ack, too_busy, want_crash, none; zero-field variants encode   *)
(* as such a token and LookupResult::EmptySet as null.                     *)
(***************************************************************************)
C17_StatedVocabulary == Vocabulary(StatedKeys, StatedTokens)

(***************************************************************************)
(* C17 amended.  The keys are those stated and best_sim_less_than,         *)
(* client_choice and unexpected (each the single key of a variant carrying *)
(* a payload); the tokens are those stated without client_choice;          *)
(* zero-field variants encode as such a token and LookupResult::EmptySet   *)
(* as null.                                                                *)
(***************************************************************************)
C17_TextVocabulary == Vocabulary(EncodedKeys, EncodedTokens)

C17_Witness ==
    /\ pc = "jsoned"
    /\ ty = "ClusterChoice"
    /\ val.tag = "ClientChoice"
    /\ RootKeys(json) = {"client_choice"}

(***************************************************************************)
(* The forms from_json of a type expects, from the text mapping: the       *)
(* tokens naming its zero-field variants, and the keys an object must (or  *)
(* must not both) hold.                                                    *)
(***************************************************************************)
\* init, terminate / all, best, best_or_mine / always / server_choice / none /
\* init_ack, terminate_ack, too_busy, want_crash
TokensOf(t) ==
    CASE t = "Req" -> {<<105, 110, 105, 116>>, <<116, 101, 114, 109, 105, 110, 97, 116, 101>>}
      [] t = "LookupType" ->
            {<<97, 108, 108>>,
             <<98, 101, 115, 116>>,
             <<98, 101, 115, 116, 95, 111, 114, 95, 109, 105, 110, 101>>}
      [] t \in {"InsertCond", "AssignCond"} -> {<<97, 108, 119, 97, 121, 115>>}
      [] t = "ClusterChoice" -> {<<115, 101, 114, 118, 101, 114, 95, 99, 104, 111, 105, 99, 101>>}
      [] t = "PostAction" -> {<<110, 111, 110, 101>>}
      [] t = "Rep" ->
            {<<105, 110, 105, 116, 95, 97, 99, 107>>,
             <<116, 101, 114, 109, 105, 110, 97, 116, 101, 95, 97, 99, 107>>,
             <<116, 111, 111, 95, 98, 117, 115, 121>>,
             <<119, 97, 110, 116, 95, 99, 114, 97, 115, 104>>}
      [] OTHER -> {}

\* an object that lacks a key the type requires, or holds the keys of two variants
LacksOrConflicts(t, keys) ==
    CASE t = "LookupTask" -> ~({"text", "result", "post_action"} \subseteq keys)
      [] t = "ClusterAssign" -> ~({"cond", "choice"} \subseteq keys)
      [] t = "Match" -> ~({"cluster_id", "similarity", "user_data"} \subseteq keys)
      [] t = "PostAction" -> ~({"cond", "assign", "user_data"} \subseteq keys)
      [] t \in {"InsertCond", "AssignCond"} -> "best_sim_less_than" \notin keys
      [] t = "ClusterChoice" -> "client_choice" \notin keys
      [] t = "Req" -> "lookup" \notin keys
      [] t = "Trans" -> Cardinality(keys \cap {"async", "sync"}) # 1
      [] t = "Rep" -> Cardinality(keys \cap {"result", "unexpected"}) # 1
      [] t = "LookupResult" -> Cardinality(keys \cap {"best", "neighbours", "error"}) # 1
      [] OTHER -> FALSE

\* a node that is no object and no other form the type expects
MatchesNoForm(t, node) ==
    /\ node.k # "Object" \/ t = "String"
    /\ ~(node.k = "String" /\ (t = "String" \/ node.s \in TokensOf(t)))
    /\ ~(node.k = "Null" /\ t = "LookupResult")

\* a Workload that is no array is read as its element
ReadAs(t, node) == IF t \in WorkloadTypes /\ node.k # "Array" THEN ElementType(t) ELSE t

ErrorClassification(types) ==
    pc = "foreign" /\ ty \in types /\ ~(ty \in WorkloadTypes /\ json.k = "Array") =>
        /\ json.k = "Object" /\ LacksOrConflicts(ReadAs(ty, json), DOMAIN json.o) =>
                ~jres.ok /\ jres.err = "MalformedObject" /\ jres.node = json
        /\ MatchesNoForm(ReadAs(ty, json), json) =>
                ~jres.ok /\ jres.err = "UnexpectedToken" /\ jres.node = json

(***************************************************************************)
(* C18.  Text error classification: for every model type, from_json of an  *)
(* object that lacks a required key or carries conflicting variant keys    *)
(* fails with MalformedObject, and from_json of a node whose shape or      *)
(* string token matches no form the type expects fails with                *)
(* UnexpectedToken; both carry the node at which the failure was detected. *)
(***************************************************************************)
C18_TextErrorClassification == ErrorClassification(JsonTypes)

(***************************************************************************)
(* C19.  json_str_to_anything reports three failures that can be told      *)
(* apart: a text that is not JSON yields the parse-level message, a tree   *)
(* from_json rejects with MalformedObject yields the malformed-object      *)
(* message, a tree it rejects with UnexpectedToken yields the              *)
(* unexpected-token message, and no message is of two kinds.  It returns   *)
(* Ok exactly when the parser and from_json both succeed, with the value   *)
(* from_json built.                                                        *)
(***************************************************************************)
HasPrefix(s, prefix) == Len(s) >= Len(prefix) /\ SubSeq(s, 1, Len(prefix)) = prefix

FailureKinds(r) ==
    {kind \in {"parse", "malformed", "unexpected"} :
        HasPrefix(r.msg, CASE kind = "parse" -> Msg_parsing
                           [] kind = "malformed" -> Msg_malformed
                           [] kind = "unexpected" -> Msg_unexpected)}

C19_ThreeFailures ==
    pc = "text" =>
        LET parsed == Json_from_str(area)
            decoded == FromJson(ty, env, parsed.val)
        IN  /\ ~parsed.ok => (~jres.ok /\ FailureKinds(jres) = {"parse"})
            /\ (parsed.ok /\ ~decoded.ok /\ decoded.err = "MalformedObject")
                   => (~jres.ok /\ FailureKinds(jres) = {"malformed"})
            /\ (parsed.ok /\ ~decoded.ok /\ decoded.err = "UnexpectedToken")
                   => (~jres.ok /\ FailureKinds(jres) = {"unexpected"})
            /\ jres.ok <=> (parsed.ok /\ decoded.ok)
            /\ jres.ok => jres.val = decoded.val

\* a text that parses to a tree from_json rejects as a malformed object
C19_Witness ==
    /\ pc = "text"
    /\ Json_from_str(area).ok
    /\ ~jres.ok
    /\ FailureKinds(jres) = {"malformed"}

(***************************************************************************)
(* C20.  Hostile lengths: when decode reads a Workload::Many count or a    *)
(* string length larger than the remaining input can contain, it fails     *)
(* with UnexpectedEOF, and the storage it reserved (elements of a Vec,     *)
(* bytes of a String) is no more than the bytes that follow the count or   *)
(* length could hold at one byte an element; the same bound holds for the  *)
(* reservation of every decode.                                            *)
(***************************************************************************)
DecodedStates == {"decoded", "truncated", "retagged", "probed", "corrupted", "peer", "hostile"}

\* the number of bytes of the slice after the tag and count, or the length
Following(t, slice) ==
    IF t = "String" THEN Len(slice) - Min(Len(slice), 4)
    ELSE Len(slice) - Min(Len(slice), 5)

ReservedWithin(t, e, slice) ==
    IF t = "String" THEN StringReserved(e, slice) <= Following(t, slice)
    ELSE WorkloadReserved(e, slice) <= Following(t, slice)

C20_HostileLengths ==
    /\ pc = "hostile" => (res = ErrUnexpectedEOF /\ ReservedWithin(ty, env, area))
    /\ (pc \in DecodedStates /\ ty \in WorkloadTypes \cup {"String"})
          => ReservedWithin(ty, env, area)

(***************************************************************************)
(* C21.  Undersized buffer: encode returns no error value.  Into a buffer  *)
(* of encode_len bytes or more the call completes; into a shorter buffer   *)
(* the call is aborted at a field that does not fit: it does not return,   *)
(* what it wrote before that is the beginning of the encoding, nothing is  *)
(* written at or after the point of failure, and the buffer keeps its      *)
(* length.                                                                 *)
(***************************************************************************)
C21_UndersizedBuffer ==
    /\ pc \in {"encoded", "long"} => enc.ok
    /\ pc = "short" =>
          /\ ~enc.ok
          /\ Len(enc.buf) < EncodeLen(ty, env, val)
          /\ enc.pos <= Len(enc.buf)
          /\ SubSeq(enc.buf, 1, enc.pos) = SubSeq(Bytes(ty, env, val), 1, enc.pos)
          /\ \A i \in (enc.pos + 1)..Len(enc.buf) : enc.buf[i] = 170

\* a buffer one byte short of a value with several fields: the call is aborted
\* after some fields were written
C21_Witness ==
    /\ pc = "short"
    /\ ~enc.ok
    /\ enc.pos > 0
    /\ Len(enc.buf) = EncodeLen(ty, env, val) - 1

(***************************************************************************)
(* C22.  Statelessness under concurrency: encode, encode_len, decode,      *)
(* to_json and from_json touch nothing but their arguments.  However the   *)
(* calls of several threads on buffers and trees of their own interleave,  *)
(* each call returns what it returns alone, a buffer being encoded into    *)
(* holds the beginning of its thread's packet and is untouched beyond it,  *)
(* and a packet or tree being read stays as it was.                        *)
(***************************************************************************)
AloneResult(th) ==
    CASE th.call = "encode_len" -> Returned(EncodeLen(th.ty, th.env, th.val))
      [] th.call = "encode" -> NoResult
      [] th.call = "decode" -> Ok(th.val, <<>>)
      [] th.call = "to_json" -> Returned(ToJson(th.ty, th.env, th.val))
      [] th.call = "from_json" -> JOk(th.val)

AsAlone(th) ==
    /\ th.tree = ToJson(th.ty, th.env, th.val)
    /\ th.call # "encode" => th.area = NewArea(Bytes(th.ty, th.env, th.val))
    /\ th.call = "encode" =>
          /\ th.area.ok
          /\ Len(th.area.buf) = EncodeLen(th.ty, th.env, th.val)
          /\ SubSeq(th.area.buf, 1, th.area.pos)
                = SubSeq(Bytes(th.ty, th.env, th.val), 1, th.area.pos)
          /\ \A i \in (th.area.pos + 1)..Len(th.area.buf) : th.area.buf[i] = 170
          /\ th.done <=> th.area.pos = Len(th.area.buf)
    /\ th.out = IF th.done THEN AloneResult(th) ELSE NoResult

C22_Stateless == pc = "threads" => \A t \in ThreadIds : AsAlone(threads[t])

\* one thread is in the middle of an encode while the other, which started
\* with it, has written part of its own buffer too
C22_Witness ==
    /\ pc = "threads"
    /\ \A t \in ThreadIds :
          /\ threads[t].call = "encode"
          /\ threads[t].area.pos > 0
          /\ ~threads[t].done
    /\ threads[1].val # threads[2].val

(***************************************************************************)
(* C23.  Decode threads the remainder: decode of the encoding of v         *)
(* followed by bytes s returns v and exactly s; so of two packets one      *)
(* after the other, decode returns the first value and, applied to the     *)
(* remainder it returned, the second value and what follows that.          *)
(***************************************************************************)
\* what a slice holds after the first n bytes
After(slice, n) == SubSeq(slice, n + 1, Len(slice))

C23_RemainderThreaded ==
    /\ pc = "followed" =>
          /\ After(area, Len(enc.buf)) \in Suffixes
          /\ res = Ok(val, After(area, Len(enc.buf)))
    /\ pc = "first" =>
          /\ res.ok
          /\ res.val = val
          /\ res.rest = After(area, EncodeLen(ty, env, val))
          /\ Len(res.rest) >= EncodeLen(sib.t, env, sib.v)
          /\ SubSeq(res.rest, 1, EncodeLen(sib.t, env, sib.v)) = Bytes(sib.t, env, sib.v)
    /\ pc = "second" =>
          /\ res.ok
          /\ res.val = sib.v
          /\ res.rest = After(area, EncodeLen(sib.t, env, sib.v))
          /\ res.rest \in {<<>>, Filled(2)}

\* the second of two packets was decoded from the remainder of the first, and
\* bytes remain after it
C23_Witness ==
    /\ pc = "second"
    /\ res.ok
    /\ res.val = sib.v
    /\ res.rest = Filled(2)
    /\ ty = "Trans"

(***************************************************************************)
(* C24.  Encode frame: encode into a buffer longer than encode_len writes  *)
(* the first encode_len bytes only, leaves every later byte as it was and  *)
(* returns the tail that starts at offset encode_len; a sibling encoded    *)
(* into that tail lands right after, so the buffer holds the two           *)
(* encodings one after the other, and the bytes after them are as before.  *)
(***************************************************************************)
C24_EncodeFrame ==
    /\ pc = "long" =>
          /\ enc.ok
          /\ enc.pos = EncodeLen(ty, env, val)
          /\ Len(enc.buf) - enc.pos \in Slack
          /\ SubSeq(enc.buf, 1, enc.pos) = Bytes(ty, env, val)
          /\ After(enc.buf, enc.pos) = Filled(Len(enc.buf) - enc.pos)
    /\ pc = "siblings" =>
          /\ enc.ok
          /\ enc.pos = EncodeLen(ty, env, val) + EncodeLen(sib.t, env, sib.v)
          /\ SubSeq(enc.buf, 1, enc.pos) = Bytes(ty, env, val) \o Bytes(sib.t, env, sib.v)
          /\ After(enc.buf, enc.pos) = Filled(Len(enc.buf) - enc.pos)

\* a string was encoded after a value that ends in a string, in a buffer with
\* bytes to spare
C24_Witness ==
    /\ pc = "siblings"
    /\ ty = "LookupResult"
    /\ val.tag = "Error"
    /\ val.message = <<195, 169>>
    /\ sib.t = "String"
    /\ Len(enc.buf) = enc.pos + 2

(***************************************************************************)
(* C25.  No coercion in text decode: a node of the wrong primitive kind is *)
(* an error and is never cast.  A string or integer node where a float     *)
(* threshold or similarity is expected, a string, float or negative        *)
(* integer where cluster_id is expected, and a node that is no string      *)
(* where text or an error message is expected, make from_json fail.        *)
(***************************************************************************)
\* the keys whose node a type reads as a primitive, with the kind it expects
PrimitiveKeys(t) ==
    CASE t \in {"InsertCond", "AssignCond"} -> {<<"best_sim_less_than", "F64">>}
      [] t = "Match" -> {<<"similarity", "F64">>, <<"cluster_id", "U64">>}
      [] t = "ClusterChoice" -> {<<"client_choice", "U64">>}
      [] t = "LookupTask" -> {<<"text", "String">>}
      [] t = "LookupResult" -> {<<"error", "String">>}
      [] OTHER -> {}

C25_NoCoercion ==
    pc = "miskinded" =>
        /\ (ty = "String" /\ json.k # "String") => ~jres.ok
        /\ json.k = "Object" =>
              \A expected \in PrimitiveKeys(ty) :
                  (Has(json, expected[1]) /\ json.o[expected[1]].k # expected[2])
                      => ~jres.ok

\* a Match whose similarity is the integer 177, all else as to_json gave it
C25_Witness ==
    /\ pc = "miskinded"
    /\ ty = "Match"
    /\ json = JObject(WithKey(ToJson(ty, env, val).o, "similarity", JU64(U64_177)))
    /\ ~jres.ok

(***************************************************************************)
(* C26.  Eager first error in binary decode: fields are decoded in wire    *)
(* order and the first failure is returned as it is through every          *)
(* enclosing type.  When decode fails with InvalidTag at offset k, the tag *)
(* reported is the byte at offset k, the bytes before it alone do not yet  *)
(* fail that way, and every buffer with the same first k + 1 bytes fails   *)
(* with the same InvalidTag: what follows has no influence.                *)
(***************************************************************************)
\* bytes put after the failing byte in place of what followed it
Tails == { <<>>, <<1>>, <<9, 2, 0, 0, 0>>, <<255, 255, 255>> }

\* the first offset at which the slice and the packet differ
FirstDifference == CHOOSE i \in 1..Len(area) : area[i] # enc.buf[i]

\* the length of the shortest beginning of the slice, from n bytes on, on which
\* decode returns what it returned on the slice
RECURSIVE FailLen(_)
FailLen(n) ==
    IF Decode(ty, env, SubSeq(area, 1, n)) = res THEN n ELSE FailLen(n + 1)

EagerAt(n) ==
    /\ area[n] = res.tag
    /\ Decode(ty, env, SubSeq(area, 1, n - 1)) = ErrUnexpectedEOF
    /\ \A tail \in Tails : Decode(ty, env, SubSeq(area, 1, n) \o tail) = res

C26_EagerFirstError ==
    (pc = "damaged" /\ ~res.ok /\ res.err = "InvalidTag")
        => EagerAt(FailLen(FirstDifference))

\* a request whose post action tag, well inside the packet, was replaced: decode
\* reports that byte, and bytes follow it in the slice
C26_Witness ==
    /\ pc = "damaged"
    /\ ty = "Trans"
    /\ res = ErrInvalidTag(255)
    /\ FirstDifference > 3
    /\ FailLen(FirstDifference) < Len(area)

(***************************************************************************)
(* C27.  Canonical encoding: whenever decode succeeds on a buffer with a   *)
(* value and a remainder, encode_len of the value is the number of bytes   *)
(* consumed and encode of the value gives back exactly the consumed        *)
(* bytes; so two different byte strings never decode to the same value and *)
(* remainder, and no packet cut short is itself a packet.                  *)
(***************************************************************************)
\* the states in which res is what decode returned on area
AfterDecode == DecodedStates \cup {"followed", "first", "second", "damaged"}

\* the type and the host of the decode that gave res
DecodedType == IF pc = "second" THEN sib.t ELSE ty
DecodedEnv == IF pc = "peer" THEN [env EXCEPT !.host = OtherHost(env.host)] ELSE env

C27_CanonicalEncoding ==
    /\ (pc \in AfterDecode /\ res.ok) =>
          /\ EncodeLen(DecodedType, DecodedEnv, res.val) = Len(area) - Len(res.rest)
          /\ Bytes(DecodedType, DecodedEnv, res.val)
                = SubSeq(area, 1, Len(area) - Len(res.rest))
          /\ res.rest = After(area, Len(area) - Len(res.rest))
    /\ pc = "truncated" => ~res.ok

\* decode succeeded on bytes that are the packet of another value than the one
\* encoded, and left a remainder
C27_Witness ==
    /\ pc = "damaged"
    /\ res.ok
    /\ res.val # val
    /\ Len(res.rest) > 0

(***************************************************************************)
(* C28.  Length-prefix range: for a string of at most 2^32 - 1 bytes and a *)
(* Workload::Many of at most 2^32 - 1 elements the four-byte prefix is the *)
(* length.  For a longer one the prefix written is the length modulo 2^32, *)
(* while encode_len and the payload written go by the full length: encode  *)
(* does not reject the value, and decode, going by the prefix, does not    *)
(* get it back.                                                            *)
(***************************************************************************)
FitsU32(usize) == \A i \in 1..4 : usize[i] = 0

Modulo2to32(usize) == [i \in 1..8 |-> IF i <= 4 THEN 0 ELSE usize[i]]

\* the number the low three digits stand for
LowValue(usize) == usize[6] * 65536 + usize[7] * 256 + usize[8]

C28_LengthPrefixRange ==
    pc = "lengths" =>
        /\ wide.stage \in {"sized", "encoded", "decoded"} =>
              /\ ~FitsU32(wide.len) => ~FitsU32(wide.encode_len)
              /\ (\A i \in 1..6 : wide.len[i] <= 1) =>
                    LowValue(wide.encode_len)
                        = LowValue(wide.len) + (IF wide.kind = "String" THEN 4 ELSE 5)
        /\ wide.stage \in {"encoded", "decoded"} =>
              /\ FitsU32(wide.len) => <<0, 0, 0, 0>> \o wide.prefix = wide.len
              /\ ~FitsU32(wide.len) =>
                    /\ <<0, 0, 0, 0>> \o wide.prefix = Modulo2to32(wide.len)
                    /\ <<0, 0, 0, 0>> \o wide.prefix # wide.len
              /\ (\A i \in 1..5 : wide.len[i] = 0) =>
                    wide.prefix = U32Digits(LowValue(wide.len))
              /\ wide.copied = wide.len
        /\ wide.stage = "decoded" => (wide.declared = wide.len <=> FitsU32(wide.len))

\* a string of 2^32 + 1 bytes went through encode and decode: the prefix said 1
C28_Witness ==
    /\ pc = "lengths"
    /\ wide.stage = "decoded"
    /\ wide.kind = "String"
    /\ wide.len = <<0, 0, 0, 1, 0, 0, 0, 1>>
    /\ wide.prefix = <<0, 0, 0, 1>>
    /\ wide.declared # wide.len

(***************************************************************************)
(* C29.  Extra keys in text decode: from_json of LookupTask, Match,        *)
(* ClusterAssign, PostAction, Req, InsertCond and AssignCond looks up the  *)
(* keys it needs and ignores any other key: an object with one more key    *)
(* decodes as the object without it.  Only Trans, Rep and LookupResult     *)
(* refuse an object for one more key, when it is the key of another of     *)
(* their variants.                                                         *)
(***************************************************************************)
\* the keys of which a type accepts one only
ExclusiveKeys(t) ==
    CASE t = "Trans" -> {"async", "sync"}
      [] t = "Rep" -> {"result", "unexpected"}
      [] t \in {"LookupResult", "WorkloadResult"} -> {"best", "neighbours", "error"}
      [] OTHER -> {}

\* json is the object to_json returned with one key more
OneKeyAdded(original) ==
    /\ original.k = "Object"
    /\ json.k = "Object"
    /\ Cardinality(DOMAIN json.o \ DOMAIN original.o) = 1
    /\ \A key \in DOMAIN original.o : Has(json, key) /\ json.o[key] = original.o[key]

SameOutcome(a, b) ==
    /\ a.ok = b.ok
    /\ a.ok => a.val = b.val
    /\ ~a.ok => a.err = b.err

C29_ExtraKeysIgnored ==
    (pc = "foreign" /\ OneKeyAdded(ToJson(ty, env, val))) =>
        IF (DOMAIN json.o \ DOMAIN ToJson(ty, env, val).o) \subseteq ExclusiveKeys(ty)
        THEN jres = MalformedObject(json)
        ELSE SameOutcome(jres, FromJson(ty, env, ToJson(ty, env, val)))

\* a LookupTask object with a fourth key decoded to the task
C29_Witness ==
    /\ pc = "foreign"
    /\ ty = "LookupTask"
    /\ json.k = "Object"
    /\ DOMAIN json.o = {"text", "result", "post_action", "extra"}
    /\ jres = JOk(val)

====
